---- MODULE Spec2Model ----
(***************************************************************************)
(* Model of the kernel-tracing agents of the devops-playbook repository:   *)
(*   observability/ebpf/programs/deployment_tracker.py  (dt_* variables)   *)
(*   observability/ebpf/programs/error_detector.py      (ed_* variables)   *)
(*   observability/ebpf/programs/performance_monitor.py (pm_* variables)   *)
(*   observability/ebpf/programs/latency_tracker.py     (lt_* variables)   *)
(* Each agent is a kernel-side producer (the eBPF probes) that submits     *)
(* records to a perf buffer, and a user-space loop that polls the buffer   *)
(* and runs one callback per record.                                       *)
(*                                                                         *)
(* The deployment tracker and the error detector count time in whole       *)
(* seconds: a kernel timestamp t of their model stands for t * 1e9         *)
(* nanoseconds, so that the code's "/ 1e9" conversions are exact on every   *)
(* modelled value.  The performance monitor and the latency tracker count  *)
(* nanoseconds.                                                            *)
(***************************************************************************)
EXTENDS Integers, Sequences, FiniteSets, Bags, TLC

(***************************************************************************)
(* Bounds of the model.                                                    *)
(***************************************************************************)
MaxBuf == 1            \* records a perf ring holds before it drops
MaxDtEvents == 3       \* perf_submit calls of the deployment probes
MaxEdBuf == 2          \* records the error perf ring holds before it drops
MaxEdEvents == 3       \* perf_submit calls of the error probes (Spec)
MaxEdTime == 40        \* last second of the error detector's run (Spec)
EdEventPeriod == 16    \* error probes fire at multiples of this second (Spec)
MaxLongEvents == 6     \* perf_submit calls of the error probes (SpecLong)
MaxLongTime == 312     \* last second of the error detector's run (SpecLong)
LongEventPeriod == 10  \* error probes fire at multiples of this second (SpecLong)
LongEventUntil == 10   \* last second at which an error probe fires (SpecLong)
LateBoot == 1000       \* a boot epoch later than 1970: time.time() - uptime
MaxPmProbes == 3       \* probe bodies the performance monitor's kernel side runs
MaxPmBuf == 1          \* records the performance perf ring holds before it drops
MaxLtProbes == 3       \* probes the latency tracker's kernel side runs
MaxLtBuf == 1          \* records the latency perf ring holds before it drops
LtMaxAge == 5000       \* a max-age bound for open requests, in nanoseconds
MaxLeadCalls == 4      \* calls of the latency callback after the warm start

(***************************************************************************)
(* Character sequences.  Strings whose content the code inspects are       *)
(* modelled as sequences of one-character strings.                         *)
(***************************************************************************)
Min(a, b) == IF a < b THEN a ELSE b

Take(s, n) == SubSeq(s, 1, Min(n, Len(s)))

Drop(s, n) == SubSeq(s, n + 1, Len(s))

StartsWith(s, p) == Len(s) >= Len(p) /\ SubSeq(s, 1, Len(p)) = p

Contains(s, sub) ==
  \E i \in 1..(Len(s) - Len(sub) + 1) : SubSeq(s, i, i + Len(sub) - 1) = sub

(***************************************************************************)
(* Labelled metrics of prometheus_client: a child is created on first use  *)
(* with value 0.                                                           *)
(***************************************************************************)
Get(m, k) == IF k \in DOMAIN m THEN m[k] ELSE 0

Add(m, k, d) ==
  [x \in DOMAIN m \cup {k} |-> IF x = k THEN Get(m, k) + d ELSE m[x]]

Observe(h, sample) == h (+) SetToBag({sample})

EmptyMap == [x \in {} |-> 0]

(***************************************************************************)
(* Deployment tracker: inputs.                                             *)
(***************************************************************************)
EVENT_EXEC == 1
EVENT_EXIT == 2
EVENT_CONTAINER_START == 3
EVENT_CONTAINER_STOP == 4

ContainerIdLen == 64   \* char container_id[64]
ShortIdLen == 12       \* [:12] in process_event
CgroupSkip == 8        \* args->path + 8

DockComm == <<"d", "o", "c", "k", "e", "r">>
OtherComm == <<"n", "g", "i", "n", "x">>
Comms == {DockComm, OtherComm}

DockerDir == <<"/", "d", "o", "c", "k", "e", "r", "/">>
ApiIdA == <<"a", "p", "i", "-", "0", "0", "0", "0", "0", "0", "0", "0", "a">>
ApiIdB == <<"a", "p", "i", "-", "0", "0", "0", "0", "0", "0", "0", "0", "b">>
UserSlice == <<"/", "u", "s", "e", "r", ".", "s", "l", "i", "c", "e">>
CgroupPaths == {DockerDir \o ApiIdA, DockerDir \o ApiIdB, UserSlice}

Pids == {1, 2}
DtInstants == {0, 5, 20}   \* the seconds at which the deployment probes fire
Cpus == {1, 2}

ProdHost == <<"p", "r", "o", "d", "-", "1">>
DevHost == <<"n", "o", "d", "e", "1">>
Hostnames == {ProdHost, DevHost}

\* struct event_t event = {}
NoEvent == [pid |-> 0, timestamp |-> 0, event_type |-> 0, comm |-> <<>>,
            container_id |-> <<>>]

VARIABLES
  dt_ktime,           \* bpf_ktime_get_ns() of the deployment tracker's host
  dt_submitted,       \* perf_submit calls made by the deployment probes
  container_pids,     \* BPF_HASH(container_pids, u32, u64)
  events,             \* BPF_PERF_OUTPUT(events): one ring per CPU
  hostname,           \* socket.gethostname()
  dt_event,           \* the record process_event last ran on
  dt_log,             \* the records process_event has run on, oldest first
  dt_pc,              \* where DeploymentTracker.run stands
  deployments,        \* DeploymentTracker.deployments
  deployment_counter, \* dora_deployments_total
  deployment_duration,\* dora_deployment_duration_seconds (observed samples)
  active_deployments  \* dora_active_deployments

dtVars == <<dt_ktime, dt_submitted, container_pids, events, hostname,
            dt_event, dt_log, dt_pc, deployments, deployment_counter,
            deployment_duration, active_deployments>>


VARIABLES
  ed_ktime,        \* bpf_ktime_get_ns() of the error detector's host
  ed_boot,         \* time.time() - uptime: the epoch second of the boot
  ed_submitted,    \* perf_submit calls made by the error probes
  k_incidents,     \* BPF_HASH(incidents, char[64], struct incident_t)
  error_counts,    \* BPF_HASH(error_counts, u32, u64)
  error_events,    \* BPF_PERF_OUTPUT(error_events)
  ed_event,        \* the record process_error_event last ran on
  incidents,       \* ErrorDetector.incidents
  error_counter,   \* dora_errors_total
  mttr_histogram,  \* dora_mttr_seconds (observed samples)
  incident_gauge,  \* dora_active_incidents
  failure_count,   \* ErrorDetector.failure_count
  last_check,      \* last_check of ErrorDetector.run
  ed_pc,           \* where ErrorDetector.run stands
  ed_sweep         \* check_incident_recovery under way: its current_time and
                   \* the keys of its list that it has not visited yet

edVars == <<ed_ktime, ed_boot, ed_submitted, k_incidents, error_counts,
            error_events, ed_event, incidents, error_counter, mttr_histogram,
            incident_gauge, failure_count, last_check, ed_pc, ed_sweep>>

edUser == <<ed_event, incidents, error_counter, mttr_histogram, incident_gauge,
            failure_count, last_check, ed_pc, ed_sweep>>

VARIABLES
  pm_ktime,         \* bpf_ktime_get_ns() of the performance monitor's host
  pm_probes,        \* probe bodies run so far
  pm_ts,            \* per CPU: the "u64 ts" a probe read on entry (0: none)
  pm_current,       \* per CPU: the pid of the task the CPU runs
  task_stats,       \* BPF_HASH(task_stats, u32, struct perf_event_t)
  cpu_stats,        \* BPF_HASH(cpu_stats, u32, struct cpu_stat_t)
  perf_events,      \* BPF_PERF_OUTPUT(perf_events)
  k_sched_latency,  \* BPF_HISTOGRAM(sched_latency)
  k_io_latency,     \* BPF_HISTOGRAM(io_latency)
  sched_observed,   \* the values passed to sched_latency.increment(bpf_log2l(.))
  io_observed,      \* the values passed to io_latency.increment(bpf_log2l(.))
  pm_pc,            \* where PerformanceMonitor.run stands
  last_cpu_stats,   \* PerformanceMonitor.last_cpu_stats
  cpu_usage,        \* dora_cpu_usage_percent
  sched_latency,    \* dora_scheduling_latency_microseconds (observed samples)
  io_latency,       \* dora_io_latency_microseconds (observed samples)
  context_switches, \* dora_context_switches_total
  page_faults,      \* dora_page_faults_total
  task_runtime      \* dora_task_runtime_seconds (observed samples)

pmKernel == <<pm_ktime, pm_probes, pm_ts, pm_current, task_stats, cpu_stats,
              perf_events, k_sched_latency, k_io_latency, sched_observed,
              io_observed>>

pmUser == <<pm_pc, last_cpu_stats, cpu_usage, sched_latency, io_latency,
            context_switches, page_faults, task_runtime>>

pmVars == <<pmKernel, pmUser>>

VARIABLES
  lt_ktime,        \* bpf_ktime_get_ns() of the latency tracker's host
  lt_probes,       \* probe runs so far
  lt_probe,        \* the probe that ran last, and the pid it ran for
  requests,        \* BPF_HASH(requests, u64, struct request_t)
  latency_hist,    \* BPF_HISTOGRAM(latency_hist, struct hist_key)
  latency_events,  \* BPF_PERF_OUTPUT(latency_events)
  lt_event,        \* the record process_latency_event last ran on
  lt_printed,      \* lt_ktime at the last print_histogram of the loop
  http_latency,    \* dora_http_request_duration_seconds (observed samples)
  db_latency,      \* dora_database_query_duration_seconds (observed samples)
  lead_time,       \* dora_lead_time_seconds (observed samples)
  latency_buffer   \* LatencyTracker.latency_buffer

ltKernel == <<lt_ktime, lt_probes, lt_probe, requests, latency_hist,
              latency_events>>

ltUser == <<lt_event, lt_printed, http_latency, db_latency, lead_time, latency_buffer>>

ltVars == <<ltKernel, ltUser>>

\* the agents are separate processes: a step of one leaves the others alone
notDt == <<edVars, pmVars, ltVars>>
notEd == <<dtVars, pmVars, ltVars>>
notPm == <<dtVars, edVars, ltVars>>
notLt == <<dtVars, edVars, pmVars>>

(***************************************************************************)
(* Deployment tracker: kernel side.                                        *)
(***************************************************************************)
\* events.perf_submit: the record is lost when the CPU's ring is full.
PerfSubmit(rings, cpu, ev) ==
  IF Len(rings[cpu]) < MaxBuf
  THEN [rings EXCEPT ![cpu] = Append(@, ev)]
  ELSE rings

IsDock(comm) ==
  Len(comm) >= 4 /\ comm[1] = "d" /\ comm[2] = "o" /\ comm[3] = "c" /\ comm[4] = "k"

\* TRACEPOINT_PROBE(sched, sched_process_exec)
ProbeExec(cpu, pid, comm) ==
  /\ dt_submitted < MaxDtEvents
  /\ LET ev == [pid |-> pid, timestamp |-> dt_ktime,
                event_type |-> IF IsDock(comm) THEN EVENT_CONTAINER_START
                               ELSE EVENT_EXEC,
                comm |-> comm, container_id |-> <<>>]
     IN /\ container_pids' = IF IsDock(comm)
                             THEN [p \in DOMAIN container_pids \cup {pid} |->
                                     IF p = pid THEN dt_ktime ELSE container_pids[p]]
                             ELSE container_pids
        /\ events' = PerfSubmit(events, cpu, ev)
  /\ dt_submitted' = dt_submitted + 1
  /\ UNCHANGED <<dt_ktime, hostname, dt_event, dt_log, dt_pc, deployments,
                 deployment_counter, deployment_duration,
                 active_deployments>>
  /\ UNCHANGED notDt

\* TRACEPOINT_PROBE(sched, sched_process_exit)
ProbeExit(cpu, pid) ==
  /\ dt_submitted < MaxDtEvents
  /\ pid \in DOMAIN container_pids
  /\ LET ev == [pid |-> pid, timestamp |-> dt_ktime,
                event_type |-> EVENT_CONTAINER_STOP,
                comm |-> DockComm, container_id |-> <<>>]
     IN events' = PerfSubmit(events, cpu, ev)
  /\ container_pids' = [p \in DOMAIN container_pids \ {pid} |-> container_pids[p]]
  /\ dt_submitted' = dt_submitted + 1
  /\ UNCHANGED <<dt_ktime, hostname, dt_event, dt_log, dt_pc, deployments,
                 deployment_counter, deployment_duration,
                 active_deployments>>
  /\ UNCHANGED notDt

IsDockerCgroup(path) ==
  /\ Len(path) >= CgroupSkip
  /\ SubSeq(path, 1, 7) = <<"/", "d", "o", "c", "k", "e", "r">>

\* TRACEPOINT_PROBE(cgroup, cgroup_mkdir)
ProbeCgroupMkdir(cpu, path) ==
  /\ dt_submitted < MaxDtEvents
  /\ IsDockerCgroup(path)
  /\ LET ev == [pid |-> 0, timestamp |-> dt_ktime,
                event_type |-> EVENT_CONTAINER_START,
                comm |-> <<>>,
                container_id |-> Take(Drop(path, CgroupSkip), ContainerIdLen - 1)]
     IN events' = PerfSubmit(events, cpu, ev)
  /\ dt_submitted' = dt_submitted + 1
  /\ UNCHANGED <<dt_ktime, container_pids, hostname, dt_event, dt_log, dt_pc,
                 deployments, deployment_counter, deployment_duration,
                 active_deployments>>
  /\ UNCHANGED notDt

\* The kernel clock moves on between two probes.
DtTick ==
  /\ \E t \in DtInstants : t > dt_ktime /\ dt_ktime' = t
  /\ UNCHANGED <<dt_submitted, container_pids, events, hostname, dt_event,
                 dt_log, dt_pc, deployments, deployment_counter,
                 deployment_duration, active_deployments>>
  /\ UNCHANGED notDt

(***************************************************************************)
(* Deployment tracker: user space.                                         *)
(***************************************************************************)
\* DeploymentTracker.get_service_from_container (container_to_service is
\* never filled, so only the prefix rules apply)
get_service_from_container(container_id) ==
  IF StartsWith(container_id, <<"a", "p", "i", "-">>) THEN "api-service"
  ELSE IF StartsWith(container_id, <<"w", "e", "b", "-">>) THEN "web-frontend"
  ELSE IF StartsWith(container_id, <<"d", "b", "-">>) THEN "database"
  ELSE "unknown"

\* DeploymentTracker.get_environment
get_environment ==
  IF Contains(hostname, <<"p", "r", "o", "d">>) THEN "production"
  ELSE IF Contains(hostname, <<"s", "t", "a", "g", "i", "n", "g">>) THEN "staging"
  ELSE "development"

\* container_id = event.container_id.decode('utf-8', 'replace')[:12]
EventKey(ev) == Take(ev.container_id, ShortIdLen)

DurationReversed(ev, deployment) == deployment.start_time - ev.timestamp

\* duration = (event.timestamp - deployment['start_time']) / 1e9
Duration(ev, deployment) == ev.timestamp - deployment.start_time

StoreStartOnce(container_id, record) ==
  [k \in DOMAIN deployments \cup {container_id} |->
     IF k \in DOMAIN deployments THEN deployments[k] ELSE record]

\* self.deployments[container_id] = {...}
StoreStart(container_id, record) ==
  [k \in DOMAIN deployments \cup {container_id} |->
     IF k = container_id THEN record ELSE deployments[k]]

\* the branch "if event.event_type == 3" of process_event
ContainerStarted(ev, container_id, service, environment) ==
  /\ deployments' =
       StoreStart(container_id,
                  [service |-> service, start_time |-> ev.timestamp,
                   environment |-> environment])
  /\ deployment_counter' =
       Add(deployment_counter, <<service, environment, "started">>, 1)
  /\ active_deployments' = Add(active_deployments, <<service, environment>>, 1)
  /\ UNCHANGED deployment_duration

\* the branch "if container_id in self.deployments" of process_event
ContainerStopped(ev, container_id, service, environment) ==
  /\ deployment_duration' =
       Observe(deployment_duration,
               [service |-> service, environment |-> environment,
                value |-> Duration(ev, deployments[container_id])])
  /\ deployment_counter' =
       Add(deployment_counter, <<service, environment, "completed">>, 1)
  /\ active_deployments' = Add(active_deployments, <<service, environment>>, -1)
  /\ deployments' =
       [k \in DOMAIN deployments \ {container_id} |-> deployments[k]]

process_event_unguarded(ev) ==
  LET container_id == EventKey(ev)
      service == get_service_from_container(container_id)
      environment == get_environment
  IN IF ev.event_type = EVENT_CONTAINER_START
     THEN ContainerStarted(ev, container_id, service, environment)
     ELSE IF ev.event_type = EVENT_CONTAINER_STOP
     THEN IF container_id \in DOMAIN deployments
          THEN ContainerStopped(ev, container_id, service, environment)
          ELSE /\ active_deployments' =
                    Add(active_deployments, <<service, environment>>, -1)
               /\ deployment_counter' =
                    Add(deployment_counter, <<service, environment, "completed">>, 1)
               /\ UNCHANGED <<deployments, deployment_duration>>
     ELSE UNCHANGED <<deployments, deployment_counter, deployment_duration,
                      active_deployments>>

\* DeploymentTracker.process_event, applied to one record of the perf buffer
process_event(ev) ==
  LET container_id == EventKey(ev)
      service == get_service_from_container(container_id)
      environment == get_environment
  IN IF ev.event_type = EVENT_CONTAINER_START
     THEN ContainerStarted(ev, container_id, service, environment)
     ELSE IF ev.event_type = EVENT_CONTAINER_STOP
             /\ container_id \in DOMAIN deployments
     THEN ContainerStopped(ev, container_id, service, environment)
     ELSE UNCHANGED <<deployments, deployment_counter, deployment_duration,
                      active_deployments>>

StopLooksUpAlways(ev) == ev.event_type = EVENT_CONTAINER_STOP

\* the stop branch that reads self.deployments[container_id] and deletes it
StopLooksUp(ev) ==
  /\ ev.event_type = EVENT_CONTAINER_STOP
  /\ EventKey(ev) \in DOMAIN deployments

\* self.deployments[container_id] and "del self.deployments[container_id]"
\* raise KeyError for a container that has no entry
ProcessEventRaises(ev) ==
  StopLooksUp(ev) /\ EventKey(ev) \notin DOMAIN deployments

\* perf_buffer_poll of DeploymentTracker.run: the callback runs on the oldest
\* record of one CPU's ring.  run catches KeyboardInterrupt only: an
\* exception of the callback is taken to end the loop.
DtDispatch(cpu) ==
  /\ dt_pc = "poll"
  /\ events[cpu] # <<>>
  /\ process_event(Head(events[cpu]))
  /\ dt_pc' = IF ProcessEventRaises(Head(events[cpu])) THEN "failed" ELSE "poll"
  /\ dt_event' = Head(events[cpu])
  /\ dt_log' = Append(dt_log, Head(events[cpu]))
  /\ events' = [events EXCEPT ![cpu] = Tail(@)]
  /\ UNCHANGED <<dt_ktime, dt_submitted, container_pids, hostname>>
  /\ UNCHANGED notDt

\* "except KeyboardInterrupt: ... self.print_stats()" of DeploymentTracker.run
DtShutdown ==
  /\ dt_pc = "poll"
  /\ dt_pc' = "stopped"
  /\ UNCHANGED <<dt_ktime, dt_submitted, container_pids, events, hostname,
                 dt_event, dt_log, deployments, deployment_counter,
                 deployment_duration, active_deployments>>
  /\ UNCHANGED notDt

DtInitOn(hosts) ==
  /\ dt_ktime = 0
  /\ dt_submitted = 0
  /\ container_pids = EmptyMap
  /\ events = [c \in Cpus |-> <<>>]
  /\ hostname \in hosts
  /\ dt_event = NoEvent
  /\ dt_log = <<>>
  /\ dt_pc = "poll"
  /\ deployments = EmptyMap
  /\ deployment_counter = EmptyMap
  /\ deployment_duration = EmptyBag
  /\ active_deployments = EmptyMap

(***************************************************************************)
(* Error detector: inputs.                                                 *)
(***************************************************************************)
ERROR_SEGFAULT == 1
ERROR_OOM == 2
ERROR_PANIC == 3
ERROR_HTTP_5XX == 4
ERROR_CONNECTION_REFUSED == 5
ERROR_TIMEOUT == 6
ERROR_EXCEPTION == 7

ECONNREFUSED == 111
ETIMEDOUT == 110

RECOVERY_SECONDS == 300   \* if time_since_start > 300
SWEEP_SECONDS == 30       \* if time.time() - last_check > 30
POLL_SECONDS == 1         \* perf_buffer_poll(timeout=1000)
CRITICAL_COUNT == 5       \* if (incident->error_count > 5)

EdComms == {"api", "web"}
SendmsgReturns == {0 - ECONNREFUSED, 0 - ETIMEDOUT, -32, 0}
ExitCodes == {0, 139}
BootEpochs == {0, LateBoot}

\* time.time(), in seconds
WallClock == ed_boot + ed_ktime

(***************************************************************************)
(* Error detector: kernel side.                                            *)
(***************************************************************************)
ErrorEvent(type, comm) ==
  [timestamp |-> ed_ktime, error_type |-> type, comm |-> comm]

\* error_events.perf_submit: the record is lost when the ring is full.
EdSubmit(ev) ==
  /\ error_events' = IF Len(error_events) < MaxEdBuf
                     THEN Append(error_events, ev) ELSE error_events
  /\ ed_submitted' = ed_submitted + 1

\* TRACEPOINT_PROBE(signal, signal_generate), sig = 11
ProbeSignal(comm) ==
  /\ k_incidents' =
       IF comm \notin DOMAIN k_incidents
       THEN [c \in DOMAIN k_incidents \cup {comm} |->
               IF c = comm
               THEN [start_time |-> ed_ktime, error_count |-> 1,
                     severity |-> 3, resolved |-> 0]
               ELSE k_incidents[c]]
       ELSE [k_incidents EXCEPT
               ![comm].error_count = @ + 1,
               ![comm].severity = IF k_incidents[comm].error_count + 1 > CRITICAL_COUNT
                                  THEN 4 ELSE @]
  /\ EdSubmit(ErrorEvent(ERROR_SEGFAULT, comm))
  /\ UNCHANGED <<ed_ktime, ed_boot, error_counts>>
  /\ UNCHANGED edUser
  /\ UNCHANGED notEd

\* TRACEPOINT_PROBE(oom, oom_score_adj_update)
ProbeOom(comm) ==
  /\ EdSubmit(ErrorEvent(ERROR_OOM, comm))
  /\ UNCHANGED <<ed_ktime, ed_boot, k_incidents, error_counts>>
  /\ UNCHANGED edUser
  /\ UNCHANGED notEd

\* KPROBE(panic)
ProbePanic ==
  /\ EdSubmit(ErrorEvent(ERROR_PANIC, "kernel"))
  /\ UNCHANGED <<ed_ktime, ed_boot, k_incidents, error_counts>>
  /\ UNCHANGED edUser
  /\ UNCHANGED notEd

\* KRETRPROBE(tcp_sendmsg)
ProbeTcpSendmsg(comm, ret) ==
  /\ ret < 0
  /\ ret \in {0 - ECONNREFUSED, 0 - ETIMEDOUT}
  /\ LET type == IF ret = 0 - ECONNREFUSED THEN ERROR_CONNECTION_REFUSED
                 ELSE ERROR_TIMEOUT
     IN /\ EdSubmit(ErrorEvent(type, comm))
        /\ error_counts' = Add(error_counts, type, 1)
  /\ UNCHANGED <<ed_ktime, ed_boot, k_incidents>>
  /\ UNCHANGED edUser
  /\ UNCHANGED notEd

\* TRACEPOINT_PROBE(sched, sched_process_exit) of the error detector
ProbeAbnormalExit(comm, exit_code) ==
  /\ exit_code # 0
  /\ EdSubmit(ErrorEvent(ERROR_EXCEPTION, comm))
  /\ UNCHANGED <<ed_ktime, ed_boot, k_incidents, error_counts>>
  /\ UNCHANGED edUser
  /\ UNCHANGED notEd

(***************************************************************************)
(* Error detector: user space.                                             *)
(***************************************************************************)
\* struct error_event_t event = {}
NoError == [timestamp |-> 0, error_type |-> 0, comm |-> ""]

\* ErrorDetector.get_error_type_label
get_error_type_label(error_type) ==
  CASE error_type = 1 -> "segfault"
    [] error_type = 2 -> "oom_kill"
    [] error_type = 3 -> "kernel_panic"
    [] error_type = 4 -> "http_5xx"
    [] error_type = 5 -> "connection_refused"
    [] error_type = 6 -> "timeout"
    [] error_type = 7 -> "exception"
    [] OTHER -> "unknown"

EventSeverityNoPanic(ev) == IF ev.error_type \in {1, 2} THEN "high" ELSE "medium"

\* severity = 'high' if event.error_type in [1, 2, 3] else 'medium'
EventSeverity(ev) == IF ev.error_type \in {1, 2, 3} THEN "high" ELSE "medium"

IncidentKeyPerEvent(ev) ==
  <<ev.comm, "-", get_error_type_label(ev.error_type), ev.timestamp>>

\* incident_key = f"{service}-{error_type}"; no error type label holds a "-",
\* so the key determines the pair
IncidentKey(ev) == <<ev.comm, "-", get_error_type_label(ev.error_type)>>

\* ErrorDetector.update_failure_rate
update_failure_rate(service) ==
  failure_count' = Add(failure_count, service, 1)

CountAndRestart(incident, ev) ==
  [incident EXCEPT !.error_count = @ + 1, !.start_time = ev.timestamp]

\* self.incidents[incident_key]['error_count'] += 1
CountError(incident, ev) == [incident EXCEPT !.error_count = @ + 1]

\* ErrorDetector.process_error_event, applied to one record of the perf buffer
process_error_event(ev) ==
  LET service == ev.comm
      error_type == get_error_type_label(ev.error_type)
      severity == EventSeverity(ev)
      incident_key == IncidentKey(ev)
  IN /\ error_counter' = Add(error_counter, <<service, error_type, severity>>, 1)
     /\ IF incident_key \notin DOMAIN incidents
        THEN /\ incidents' =
                  [k \in DOMAIN incidents \cup {incident_key} |->
                     IF k = incident_key
                     THEN [service |-> service, error_type |-> error_type,
                           severity |-> severity, start_time |-> ev.timestamp,
                           error_count |-> 1, resolved |-> FALSE]
                     ELSE incidents[k]]
             /\ incident_gauge' = Add(incident_gauge, <<service, severity>>, 1)
        ELSE /\ incidents' =
                  [incidents EXCEPT
                     ![incident_key] = CountError(incidents[incident_key], ev)]
             /\ UNCHANGED incident_gauge
     /\ update_failure_rate(service)

EdDispatchAnyThread ==
  /\ ed_pc \in {"poll", "sweep"}
  /\ error_events # <<>>
  /\ process_error_event(Head(error_events))
  /\ ed_event' = Head(error_events)
  /\ error_events' = Tail(error_events)
  /\ UNCHANGED <<ed_ktime, ed_boot, ed_submitted, k_incidents, error_counts,
                 mttr_histogram, last_check, ed_pc, ed_sweep>>
  /\ UNCHANGED notEd

\* perf_buffer_poll of ErrorDetector.run: the callback runs on the oldest
\* record, on the thread of the loop
EdDispatch ==
  /\ ed_pc = "poll"
  /\ error_events # <<>>
  /\ process_error_event(Head(error_events))
  /\ ed_event' = Head(error_events)
  /\ error_events' = Tail(error_events)
  /\ UNCHANGED <<ed_ktime, ed_boot, ed_submitted, k_incidents, error_counts,
                 mttr_histogram, last_check, ed_pc, ed_sweep>>
  /\ UNCHANGED notEd

\* time_since_start = (current_time - incident['start_time']) / 1e9
TimeSinceStart(now, incident) == now - incident.start_time

RecoveredAtWindow(now, incident) ==
  TimeSinceStart(now, incident) >= RECOVERY_SECONDS

\* if time_since_start > 300
Recovered(now, incident) == TimeSinceStart(now, incident) > RECOVERY_SECONDS

\* the incidents check_incident_recovery resolves at current_time = now
ResolvedKeys(now) ==
  {k \in DOMAIN incidents : ~incidents[k].resolved /\ Recovered(now, incidents[k])}

\* the labels and the value of self.mttr_histogram...observe(recovery_time)
MttrSample(now, incident) ==
  [service |-> incident.service, severity |-> incident.severity,
   value |-> TimeSinceStart(now, incident)]

KeepResolved(R) ==
  [k \in DOMAIN incidents |->
     IF k \in R THEN [incidents[k] EXCEPT !.resolved = TRUE] ELSE incidents[k]]

\* incident['resolved'] = True ... del self.incidents[incident_key]
DropResolved(R) == [k \in DOMAIN incidents \ R |-> incidents[k]]

check_incident_recovery_gauge_kept(now) ==
  LET R == ResolvedKeys(now)
      samples == {MttrSample(now, incidents[k]) : k \in R}
  IN /\ mttr_histogram' =
          mttr_histogram (+)
          [s \in samples |->
             Cardinality({k \in R : MttrSample(now, incidents[k]) = s})]
     /\ incident_gauge' = incident_gauge
     /\ incidents' = DropResolved(R)

\* ErrorDetector.check_incident_recovery at time.time() = now
check_incident_recovery(now) ==
  LET R == ResolvedKeys(now)
      samples == {MttrSample(now, incidents[k]) : k \in R}
      labels == {<<incidents[k].service, incidents[k].severity>> : k \in R}
  IN /\ mttr_histogram' =
          mttr_histogram (+)
          [s \in samples |->
             Cardinality({k \in R : MttrSample(now, incidents[k]) = s})]
     /\ incident_gauge' =
          [l \in DOMAIN incident_gauge \cup labels |->
             Get(incident_gauge, l) -
             Cardinality({k \in R : <<incidents[k].service,
                                      incidents[k].severity>> = l})]
     /\ incidents' = DropResolved(R)

\* if time.time() - last_check > 30
SweepDue(now) == now - last_check > SWEEP_SECONDS

\* One pass of the loop of ErrorDetector.run after perf_buffer_poll has
\* drained the buffer and waited out its timeout: the recovery check runs
\* when it is due.
EdPollReturn ==
  /\ ed_pc = "poll"
  /\ error_events = <<>>
  /\ ed_ktime' = ed_ktime + POLL_SECONDS
  /\ LET now == ed_boot + ed_ktime'
     IN IF SweepDue(now)
        THEN /\ check_incident_recovery(now)
             /\ last_check' = now
        ELSE UNCHANGED <<incidents, mttr_histogram, incident_gauge, last_check>>
  /\ UNCHANGED <<ed_boot, ed_submitted, k_incidents, error_counts, error_events,
                 ed_event, error_counter, failure_count, ed_pc, ed_sweep>>
  /\ UNCHANGED notEd

(***************************************************************************)
(* The same loop, one item of check_incident_recovery's list at a time:    *)
(* the probes run in the kernel while user space walks the list.           *)
(***************************************************************************)
NoSweep == [now |-> 0, todo |-> {}]

\* One pass of the loop: perf_buffer_poll returns and, when the check is
\* due, check_incident_recovery reads the clock and takes
\* list(self.incidents.items()).
EdLoopPass ==
  /\ ed_pc = "poll"
  /\ error_events = <<>>
  /\ ed_ktime' = ed_ktime + POLL_SECONDS
  /\ LET now == ed_boot + ed_ktime'
     IN IF SweepDue(now)
        THEN /\ ed_pc' = "sweep"
             /\ ed_sweep' = [now |-> now, todo |-> DOMAIN incidents]
        ELSE UNCHANGED <<ed_pc, ed_sweep>>
  /\ UNCHANGED <<ed_boot, ed_submitted, k_incidents, error_counts, error_events>>
  /\ UNCHANGED <<ed_event, incidents, error_counter, mttr_histogram,
                 incident_gauge, failure_count, last_check>>
  /\ UNCHANGED notEd

\* "del self.incidents[incident_key]" raises KeyError for a key that is not
\* in the table
SweepRaises(k) == k \notin DOMAIN incidents

\* the body of the for loop of check_incident_recovery on one item
resolve_incident(now, k) ==
  IF ~incidents[k].resolved /\ Recovered(now, incidents[k])
  THEN /\ mttr_histogram' =
            Observe(mttr_histogram, MttrSample(now, incidents[k]))
       /\ incident_gauge' =
            Add(incident_gauge,
                <<incidents[k].service, incidents[k].severity>>, -1)
       /\ incidents' = DropResolved({k})
  ELSE UNCHANGED <<mttr_histogram, incident_gauge, incidents>>

\* the for loop of check_incident_recovery visits one item of its list.  run
\* catches KeyboardInterrupt only: a KeyError ends the loop.
EdSweepStep(k) ==
  /\ ed_pc = "sweep"
  /\ k \in ed_sweep.todo
  /\ IF SweepRaises(k)
     THEN /\ ed_pc' = "failed"
          /\ UNCHANGED <<mttr_histogram, incident_gauge, incidents, ed_sweep>>
     ELSE /\ resolve_incident(ed_sweep.now, k)
          /\ ed_sweep' = [ed_sweep EXCEPT !.todo = @ \ {k}]
          /\ UNCHANGED ed_pc
  /\ UNCHANGED <<ed_ktime, ed_boot, ed_submitted, k_incidents, error_counts,
                 error_events>>
  /\ UNCHANGED <<ed_event, error_counter, failure_count, last_check>>
  /\ UNCHANGED notEd

\* check_incident_recovery returns: last_check = time.time()
EdSweepEnd ==
  /\ ed_pc = "sweep"
  /\ ed_sweep.todo = {}
  /\ last_check' = ed_boot + ed_ktime
  /\ ed_pc' = "poll"
  /\ ed_sweep' = NoSweep
  /\ UNCHANGED <<ed_ktime, ed_boot, ed_submitted, k_incidents, error_counts,
                 error_events>>
  /\ UNCHANGED <<ed_event, incidents, error_counter, mttr_histogram,
                 incident_gauge, failure_count>>
  /\ UNCHANGED notEd

\* "except KeyboardInterrupt: ... self.print_statistics()" of
\* ErrorDetector.run: the interrupt is raised wherever the loop stands
EdShutdown ==
  /\ ed_pc \in {"poll", "sweep"}
  /\ ed_pc' = "stopped"
  /\ UNCHANGED <<ed_ktime, ed_boot, ed_submitted, k_incidents, error_counts,
                 error_events>>
  /\ UNCHANGED <<ed_event, incidents, error_counter, mttr_histogram,
                 incident_gauge, failure_count, last_check, ed_sweep>>
  /\ UNCHANGED notEd

EdInitOn(boots) ==
  /\ ed_ktime = 0
  /\ ed_boot \in boots
  /\ ed_submitted = 0
  /\ k_incidents = EmptyMap
  /\ error_counts = EmptyMap
  /\ error_events = <<>>
  /\ ed_event = NoError
  /\ incidents = EmptyMap
  /\ error_counter = EmptyMap
  /\ mttr_histogram = EmptyBag
  /\ incident_gauge = EmptyMap
  /\ failure_count = EmptyMap
  /\ last_check = ed_boot
  /\ ed_pc = "poll"
  /\ ed_sweep = NoSweep

\* the error probes may fire: at most maxEvents records, at the seconds that
\* are multiples of period, up to the second until
EdMayFire(maxEvents, period, until) ==
  /\ ed_submitted < maxEvents
  /\ ed_ktime % period = 0
  /\ ed_ktime <= until

(***************************************************************************)
(* Performance monitor: inputs.                                            *)
(*                                                                         *)
(* The monitor's clock is counted in nanoseconds.  Its u64 fields are      *)
(* modelled as words of U64 values: the model checker's integers have 32   *)
(* bits, so 2^30 stands for 2^64 and every u64 operation is taken modulo   *)
(* U64, as the C operations are modulo 2^64.                               *)
(***************************************************************************)
U64 == 2^30

Sub64(a, b) == (a - b + U64) % U64

Add64(a, b) == (a + b) % U64

NS_PER_US == 1000                  \* wait_time / 1000, latency / 1000
SNAPSHOT_RUNTIME_NS == 1000000000  \* task->runtime_ns > 1000000000
IDLE_PID == 0                      \* if (prev_pid == 0)  // Idle task

PmCpus == {0, 1}
cpu_count == Cardinality(PmCpus)
PmPids == {1, 2}
PmInstants == {1000, 10500, 1000002000}   \* the nanoseconds at which probes read the clock
IoLatencies == {500, 9000}    \* args->__data_loc_cmd_len, taken as nanoseconds

\* the comm of a task
PmComm(pid) == IF pid = IDLE_PID THEN "swapper" ELSE IF pid = 1 THEN "api" ELSE "web"

\* struct perf_event_t new_task = {}
NoTask == [timestamp |-> 0, cpu |-> 0, pid |-> 0, comm |-> "", runtime_ns |-> 0,
           wait_time_ns |-> 0, io_time_ns |-> 0, ctx_switches |-> 0,
           page_faults |-> 0]

\* struct cpu_stat_t new_stat = {}
NoCpuStat == [idle_ns |-> 0, busy_ns |-> 0, iowait_ns |-> 0]

\* table.update(&key, &value)
Put(m, k, v) == [x \in DOMAIN m \cup {k} |-> IF x = k THEN v ELSE m[x]]

(***************************************************************************)
(* bpf_log2 and bpf_log2l of the BCC helpers the probes are compiled with: *)
(* the slot of a value v > 0 is floor(log2(v)) + 1, and the slot of 0 is   *)
(* the slot of 1.                                                          *)
(***************************************************************************)
bpf_log2(v) ==
  LET r == IF v > 65535 THEN 16 ELSE 0
      v1 == v \div 2^r
      s1 == IF v1 > 255 THEN 8 ELSE 0
      v2 == v1 \div 2^s1
      s2 == IF v2 > 15 THEN 4 ELSE 0
      v3 == v2 \div 2^s2
      s3 == IF v3 > 3 THEN 2 ELSE 0
      v4 == v3 \div 2^s3
  IN r + s1 + s2 + s3 + (v4 \div 2)

bpf_log2l(v) == bpf_log2(v) + 1

(***************************************************************************)
(* Performance monitor: kernel side.  The probes of different CPUs run     *)
(* concurrently: a probe that starts with "u64 ts = bpf_ktime_get_ns()"    *)
(* reads the clock (PmEnter) and touches the maps later (its body), and    *)
(* probes of other CPUs may run in between.                                *)
(***************************************************************************)
PmEnter(cpu) ==
  /\ pm_probes < MaxPmProbes
  /\ pm_ts[cpu] = 0
  /\ pm_ts' = [pm_ts EXCEPT ![cpu] = pm_ktime]
  /\ UNCHANGED <<pm_ktime, pm_probes, pm_current, task_stats, cpu_stats,
                 perf_events, k_sched_latency, k_io_latency, sched_observed,
                 io_observed>>
  /\ UNCHANGED <<pmUser, notPm>>

\* TRACEPOINT_PROBE(sched, sched_wakeup)
ProbeSchedWakeup(cpu, pid) ==
  /\ pm_probes < MaxPmProbes
  /\ pm_ts[cpu] # 0
  /\ LET ts == pm_ts[cpu]
     IN task_stats' =
          IF pid \notin DOMAIN task_stats
          THEN Put(task_stats, pid, [NoTask EXCEPT !.timestamp = ts, !.pid = pid])
          ELSE [task_stats EXCEPT ![pid].wait_time_ns = ts]
  /\ pm_ts' = [pm_ts EXCEPT ![cpu] = 0]
  /\ pm_probes' = pm_probes + 1
  /\ UNCHANGED <<pm_ktime, pm_current, cpu_stats, perf_events, k_sched_latency,
                 k_io_latency, sched_observed, io_observed>>
  /\ UNCHANGED <<pmUser, notPm>>

\* "prev_task && prev_task->timestamp > 0" of sched_switch
PrevRan(prev) == prev \in DOMAIN task_stats /\ task_stats[prev].timestamp > 0

\* u64 runtime = ts - prev_task->timestamp
Runtime(ts, task) == Sub64(ts, task.timestamp)

\* u64 wait_time = ts - prev_task->wait_time_ns, in microseconds
WaitMicros(ts, task) == Sub64(ts, task.wait_time_ns) \div NS_PER_US

\* "Update previous task runtime" of sched_switch
SwitchedOut(ts, prev) ==
  IF PrevRan(prev)
  THEN [task_stats EXCEPT ![prev] =
          [@ EXCEPT !.runtime_ns = Add64(@, Runtime(ts, task_stats[prev])),
                    !.ctx_switches = @ + 1,
                    !.wait_time_ns = 0]]
  ELSE task_stats

SwitchedInNewOnly(tasks, ts, next) ==
  IF next \in DOMAIN tasks THEN tasks
  ELSE Put(tasks, next, [NoTask EXCEPT !.pid = next, !.comm = PmComm(next),
                                       !.timestamp = ts])

\* "Start tracking next task" of sched_switch
SwitchedIn(tasks, ts, next) ==
  LET known == IF next \in DOMAIN tasks THEN tasks
               ELSE Put(tasks, next, [NoTask EXCEPT !.pid = next,
                                                    !.comm = PmComm(next)])
  IN [known EXCEPT ![next].timestamp = ts]

\* "Update CPU stats" of sched_switch.  runtime is declared in the block of
\* "if (prev_task && ...)": the CPU's time is charged when that block ran.
CpuCharged(cpu, ts, prev) ==
  LET known == IF cpu \in DOMAIN cpu_stats THEN cpu_stats
               ELSE Put(cpu_stats, cpu, NoCpuStat)
      runtime == IF PrevRan(prev) THEN Runtime(ts, task_stats[prev]) ELSE 0
  IN IF prev = IDLE_PID
     THEN [known EXCEPT ![cpu].idle_ns = Add64(@, runtime)]
     ELSE [known EXCEPT ![cpu].busy_ns = Add64(@, runtime)]

\* TRACEPOINT_PROBE(sched, sched_switch)
ProbeSchedSwitch(cpu, next) ==
  /\ pm_probes < MaxPmProbes
  /\ pm_ts[cpu] # 0
  /\ next # pm_current[cpu]
  /\ next = IDLE_PID \/ \A c \in PmCpus : pm_current[c] # next
  /\ LET ts == pm_ts[cpu]
         prev == pm_current[cpu]
         waited == PrevRan(prev) /\ task_stats[prev].wait_time_ns > 0
     IN /\ task_stats' = SwitchedIn(SwitchedOut(ts, prev), ts, next)
        /\ k_sched_latency' =
             IF waited
             THEN Add(k_sched_latency, bpf_log2l(WaitMicros(ts, task_stats[prev])), 1)
             ELSE k_sched_latency
        /\ sched_observed' =
             IF waited
             THEN Observe(sched_observed, WaitMicros(ts, task_stats[prev]))
             ELSE sched_observed
        /\ cpu_stats' = CpuCharged(cpu, ts, prev)
  /\ pm_current' = [pm_current EXCEPT ![cpu] = next]
  /\ pm_ts' = [pm_ts EXCEPT ![cpu] = 0]
  /\ pm_probes' = pm_probes + 1
  /\ UNCHANGED <<pm_ktime, perf_events, k_io_latency, io_observed>>
  /\ UNCHANGED <<pmUser, notPm>>

\* TRACEPOINT_PROBE(block, block_rq_complete)
ProbeBlockRqComplete(cpu, latency) ==
  /\ pm_probes < MaxPmProbes
  /\ k_io_latency' = Add(k_io_latency, bpf_log2l(latency \div NS_PER_US), 1)
  /\ io_observed' = Observe(io_observed, latency \div NS_PER_US)
  /\ LET pid == pm_current[cpu]
     IN task_stats' =
          IF pid \in DOMAIN task_stats
          THEN [task_stats EXCEPT ![pid].io_time_ns = Add64(@, latency)]
          ELSE task_stats
  /\ pm_probes' = pm_probes + 1
  /\ UNCHANGED <<pm_ktime, pm_ts, pm_current, cpu_stats, perf_events,
                 k_sched_latency, sched_observed>>
  /\ UNCHANGED <<pmUser, notPm>>

ProbePageFaultUserTracking(cpu) ==
  /\ pm_probes < MaxPmProbes
  /\ pm_current[cpu] # IDLE_PID
  /\ LET pid == pm_current[cpu]
     IN task_stats' =
          IF pid \in DOMAIN task_stats
          THEN [task_stats EXCEPT ![pid].page_faults = @ + 1]
          ELSE Put(task_stats, pid, [NoTask EXCEPT !.pid = pid, !.page_faults = 1])
  /\ pm_probes' = pm_probes + 1
  /\ UNCHANGED <<pm_ktime, pm_ts, pm_current, cpu_stats, perf_events,
                 k_sched_latency, k_io_latency, sched_observed, io_observed>>
  /\ UNCHANGED <<pmUser, notPm>>

\* TRACEPOINT_PROBE(exceptions, page_fault_user)
ProbePageFaultUser(cpu) ==
  /\ pm_probes < MaxPmProbes
  /\ pm_current[cpu] # IDLE_PID
  /\ LET pid == pm_current[cpu]
     IN task_stats' =
          IF pid \in DOMAIN task_stats
          THEN [task_stats EXCEPT ![pid].page_faults = @ + 1]
          ELSE task_stats
  /\ pm_probes' = pm_probes + 1
  /\ UNCHANGED <<pm_ktime, pm_ts, pm_current, cpu_stats, perf_events,
                 k_sched_latency, k_io_latency, sched_observed, io_observed>>
  /\ UNCHANGED <<pmUser, notPm>>

\* "task && task->runtime_ns > 1000000000" of finish_task_switch
SnapshotDue(pid) ==
  pid \in DOMAIN task_stats /\ task_stats[pid].runtime_ns > SNAPSHOT_RUNTIME_NS

\* KPROBE(finish_task_switch); it returns without effect unless SnapshotDue
ProbeFinishTaskSwitch(cpu) ==
  /\ SnapshotDue(pm_current[cpu])
  /\ LET pid == pm_current[cpu]
     IN /\ perf_events' =
             IF Len(perf_events) < MaxPmBuf
             THEN Append(perf_events,
                         [task_stats[pid] EXCEPT !.cpu = cpu,
                                                 !.timestamp = pm_ktime])
             ELSE perf_events
        /\ task_stats' = [task_stats EXCEPT ![pid] =
                            [@ EXCEPT !.runtime_ns = 0, !.ctx_switches = 0,
                                      !.page_faults = 0]]
  /\ UNCHANGED <<pm_ktime, pm_probes, pm_ts, pm_current, cpu_stats,
                 k_sched_latency, k_io_latency, sched_observed, io_observed>>
  /\ UNCHANGED <<pmUser, notPm>>

\* The kernel clock moves on between two probes.
PmTick ==
  /\ \E t \in PmInstants : t > pm_ktime /\ pm_ktime' = t
  /\ UNCHANGED <<pm_probes, pm_ts, pm_current, task_stats, cpu_stats,
                 perf_events, k_sched_latency, k_io_latency, sched_observed,
                 io_observed>>
  /\ UNCHANGED <<pmUser, notPm>>

(***************************************************************************)
(* Performance monitor: user space.  Durations that the code converts to   *)
(* seconds (/ 1e9) are kept in nanoseconds.                                *)
(***************************************************************************)
\* PerformanceMonitor.process_perf_event
process_perf_event(ev) ==
  /\ task_runtime' =
       IF ev.runtime_ns > 0
       THEN Observe(task_runtime, [comm |-> ev.comm, value |-> ev.runtime_ns])
       ELSE task_runtime
  /\ context_switches' =
       IF ev.ctx_switches > 0
       THEN Add(context_switches, ev.cpu, ev.ctx_switches)
       ELSE context_switches
  /\ page_faults' =
       IF ev.page_faults > 0
       THEN Add(page_faults, "minor", ev.page_faults)
       ELSE page_faults

\* perf_buffer_poll of PerformanceMonitor.run: the callback runs on the
\* oldest record of the ring
PmDispatch ==
  /\ pm_pc = "poll"
  /\ perf_events # <<>>
  /\ process_perf_event(Head(perf_events))
  /\ perf_events' = Tail(perf_events)
  /\ UNCHANGED <<pm_ktime, pm_probes, pm_ts, pm_current, task_stats, cpu_stats,
                 k_sched_latency, k_io_latency, sched_observed, io_observed>>
  /\ UNCHANGED <<pm_pc, last_cpu_stats, cpu_usage, sched_latency, io_latency>>
  /\ UNCHANGED notPm

\* the CPUs update_cpu_metrics finds in cpu_stats
SeenCpus == {cpu \in 0..(cpu_count - 1) : cpu \in DOMAIN cpu_stats}

\* last = self.last_cpu_stats.get(cpu, {...})
LastCpuStat(cpu) ==
  IF cpu \in DOMAIN last_cpu_stats THEN last_cpu_stats[cpu] ELSE NoCpuStat

\* total_delta of update_cpu_metrics
TotalDelta(cpu) ==
  (cpu_stats[cpu].idle_ns - LastCpuStat(cpu).idle_ns)
  + (cpu_stats[cpu].busy_ns - LastCpuStat(cpu).busy_ns)
  + (cpu_stats[cpu].iowait_ns - LastCpuStat(cpu).iowait_ns)

\* (delta / total_delta) * 100, kept as the pair <<delta, total_delta>>
Percent(delta, total) == <<delta, total>>

\* PerformanceMonitor.update_cpu_metrics
update_cpu_metrics ==
  LET set == {cpu \in SeenCpus : TotalDelta(cpu) > 0}
      keys == {<<cpu, mode>> : cpu \in set, mode \in {"idle", "busy", "iowait"}}
      value(k) ==
        LET cpu == k[1]
            delta == IF k[2] = "idle"
                     THEN cpu_stats[cpu].idle_ns - LastCpuStat(cpu).idle_ns
                     ELSE IF k[2] = "busy"
                     THEN cpu_stats[cpu].busy_ns - LastCpuStat(cpu).busy_ns
                     ELSE cpu_stats[cpu].iowait_ns - LastCpuStat(cpu).iowait_ns
        IN Percent(delta, TotalDelta(cpu))
  IN /\ cpu_usage' = [k \in DOMAIN cpu_usage \cup keys |->
                        IF k \in keys THEN value(k) ELSE cpu_usage[k]]
     /\ last_cpu_stats' = [cpu \in DOMAIN last_cpu_stats \cup SeenCpus |->
                             IF cpu \in SeenCpus THEN cpu_stats[cpu]
                             ELSE last_cpu_stats[cpu]]

\* "for k, v in hist.items(): if v.value > 0: ... observe(2 ** k.value)",
\* v.value times
Forwarded(hist) ==
  LET slots == {k \in DOMAIN hist : hist[k] > 0}
      slot(sample) == CHOOSE k \in slots : 2^k = sample.value
  IN [sample \in {[label |-> "all", value |-> 2^k] : k \in slots} |->
        hist[slot(sample)]]

HistKept(hist) == hist

\* hist.clear()
HistCleared(hist) == EmptyMap

\* PerformanceMonitor.update_latency_metrics
update_latency_metrics ==
  /\ sched_latency' = sched_latency (+) Forwarded(k_sched_latency)
  /\ k_sched_latency' = HistCleared(k_sched_latency)
  /\ io_latency' = io_latency (+) Forwarded(k_io_latency)
  /\ k_io_latency' = HistCleared(k_io_latency)

\* "Update metrics every 5 seconds" of PerformanceMonitor.run.  The probes
\* run within nanoseconds of each other: the 5 seconds may end between any
\* two of them.
PmFlush ==
  /\ pm_pc = "poll"
  /\ update_cpu_metrics
  /\ update_latency_metrics
  /\ UNCHANGED <<pm_ktime, pm_probes, pm_ts, pm_current, task_stats, cpu_stats,
                 perf_events, sched_observed, io_observed>>
  /\ UNCHANGED <<pm_pc, context_switches, page_faults, task_runtime>>
  /\ UNCHANGED notPm

\* "except KeyboardInterrupt: ... self.print_summary()" of
\* PerformanceMonitor.run: the loop ends, the summary is printed and run
\* returns
PmShutdown ==
  /\ pm_pc = "poll"
  /\ pm_pc' = "stopped"
  /\ UNCHANGED <<last_cpu_stats, cpu_usage, sched_latency, io_latency,
                 context_switches, page_faults, task_runtime>>
  /\ UNCHANGED <<pmKernel, notPm>>

(***************************************************************************)
(* The same flush, one map operation at a time: the probes run on other    *)
(* CPUs while user space reads and clears the histograms.                  *)
(***************************************************************************)
\* update_cpu_metrics and the loop over sched_latency of update_latency_metrics
PmFlushSched ==
  /\ pm_pc = "poll"
  /\ update_cpu_metrics
  /\ sched_latency' = sched_latency (+) Forwarded(k_sched_latency)
  /\ pm_pc' = "sched_clear"
  /\ UNCHANGED <<io_latency, context_switches, page_faults, task_runtime>>
  /\ UNCHANGED <<pmKernel, notPm>>

\* sched_hist.clear()
PmClearSched ==
  /\ pm_pc = "sched_clear"
  /\ k_sched_latency' = HistCleared(k_sched_latency)
  /\ pm_pc' = "io_read"
  /\ UNCHANGED <<pm_ktime, pm_probes, pm_ts, pm_current, task_stats, cpu_stats,
                 perf_events, k_io_latency, sched_observed, io_observed>>
  /\ UNCHANGED <<last_cpu_stats, cpu_usage, sched_latency, io_latency,
                 context_switches, page_faults, task_runtime>>
  /\ UNCHANGED notPm

\* the loop over io_latency of update_latency_metrics
PmFlushIo ==
  /\ pm_pc = "io_read"
  /\ io_latency' = io_latency (+) Forwarded(k_io_latency)
  /\ pm_pc' = "io_clear"
  /\ UNCHANGED <<last_cpu_stats, cpu_usage, sched_latency, context_switches,
                 page_faults, task_runtime>>
  /\ UNCHANGED <<pmKernel, notPm>>

\* io_hist.clear(), and the return to perf_buffer_poll
PmClearIo ==
  /\ pm_pc = "io_clear"
  /\ k_io_latency' = HistCleared(k_io_latency)
  /\ pm_pc' = "poll"
  /\ UNCHANGED <<pm_ktime, pm_probes, pm_ts, pm_current, task_stats, cpu_stats,
                 perf_events, k_sched_latency, sched_observed, io_observed>>
  /\ UNCHANGED <<last_cpu_stats, cpu_usage, sched_latency, io_latency,
                 context_switches, page_faults, task_runtime>>
  /\ UNCHANGED notPm

\* what the CPUs run when the probes are attached: every CPU is idle, or
\* CPU 0 runs a task that was scheduled before
AllIdle == [c \in PmCpus |-> IDLE_PID]

RunningAtAttach == {AllIdle, [AllIdle EXCEPT ![0] = 1]}

PmInitOn(running) ==
  /\ pm_ktime = CHOOSE t \in PmInstants : \A u \in PmInstants : t <= u
  /\ pm_probes = 0
  /\ pm_ts = [c \in PmCpus |-> 0]
  /\ pm_current \in running
  /\ task_stats = EmptyMap
  /\ cpu_stats = EmptyMap
  /\ perf_events = <<>>
  /\ k_sched_latency = EmptyMap
  /\ k_io_latency = EmptyMap
  /\ sched_observed = EmptyBag
  /\ io_observed = EmptyBag
  /\ pm_pc = "poll"
  /\ last_cpu_stats = EmptyMap
  /\ cpu_usage = EmptyMap
  /\ sched_latency = EmptyBag
  /\ io_latency = EmptyBag
  /\ context_switches = EmptyMap
  /\ page_faults = EmptyMap
  /\ task_runtime = EmptyBag

PmInit == PmInitOn({AllIdle})

(***************************************************************************)
(* Latency tracker: inputs.  The clock is counted in nanoseconds and u64   *)
(* fields are words of U64 values, as for the performance monitor.         *)
(***************************************************************************)
HTTP_PORT == 80
HTTP_ALT_PORT == 8080
HTTPS_PORT == 443
HTTPS_ALT_PORT == 8443
HttpPorts == {HTTP_PORT, HTTP_ALT_PORT, HTTPS_PORT, HTTPS_ALT_PORT}

CLOSE_SPORT == 8080        \* gen_request_id(pid, 8080, p)
CLOSE_DPORT_FIRST == 8000  \* for (u16 p = 8000; ...
CLOSE_DPORT_END == 9000    \* ... p < 9000; p++)

POSTGRES_PORT == 5432
MYSQL_PORT == 3306
DbPorts == {POSTGRES_PORT, MYSQL_PORT}

LEAD_TIME_BATCH == 100     \* if len(self.latency_buffer[service]) >= 100

LtPids == {1, 2}
LocalPorts == {HTTP_ALT_PORT, HTTPS_PORT, 22}   \* skc_num of accepted sockets
RemotePorts == {8001, 8002, 40000}              \* skc_dport of accepted sockets
SendPorts == {POSTGRES_PORT, MYSQL_PORT, HTTPS_PORT}  \* skc_dport of tcp_sendmsg
LtInstants == {1000, 10500}  \* the nanoseconds at which probes read the clock

\* struct request_t req = {}
NoRequest == [start_ns |-> 0, end_ns |-> 0, pid |-> 0, tid |-> 0, sport |-> 0,
              dport |-> 0, http_method |-> "", http_path |-> "",
              http_status |-> 0, completed |-> 0]

\* gen_request_id: pid, sport and dport packed in disjoint bit fields of a u64
gen_request_id(pid, sport, dport) == <<pid, sport, dport>>

\* struct hist_key key of trace_close_entry
CloseHistKey == <<"api-service", "/api/metrics", 200>>

(***************************************************************************)
(* Latency tracker: kernel side.                                           *)
(***************************************************************************)
\* trace_accept_return
trace_accept_return(pid, sport, dport) ==
  /\ lt_probes < MaxLtProbes
  /\ requests' =
       IF sport \in HttpPorts
       THEN Put(requests, gen_request_id(pid, sport, dport),
                [NoRequest EXCEPT !.start_ns = lt_ktime, !.pid = pid,
                                  !.tid = pid, !.sport = sport, !.dport = dport])
       ELSE requests
  /\ lt_probes' = lt_probes + 1
  /\ lt_probe' = [name |-> "accept", pid |-> pid]
  /\ UNCHANGED <<lt_ktime, latency_hist, latency_events>>
  /\ UNCHANGED <<ltUser, notLt>>

\* the ports p at which the loop of trace_close_entry breaks
CloseMatches(pid) ==
  {p \in CLOSE_DPORT_FIRST..(CLOSE_DPORT_END - 1) :
     /\ gen_request_id(pid, CLOSE_SPORT, p) \in DOMAIN requests
     /\ requests[gen_request_id(pid, CLOSE_SPORT, p)].completed = 0}

\* req_id after the loop of trace_close_entry: the first port that breaks
\* it, or the last port tried
CloseReqId(pid) ==
  LET m == CloseMatches(pid)
  IN IF m # {}
     THEN gen_request_id(pid, CLOSE_SPORT, CHOOSE p \in m : \A q \in m : p <= q)
     ELSE gen_request_id(pid, CLOSE_SPORT, CLOSE_DPORT_END - 1)

\* u64 latency_us = (req->end_ns - req->start_ns) / 1000
LatencyMicros(req) == Sub64(req.end_ns, req.start_ns) \div NS_PER_US

\* "if (!req) return 0" of trace_close_entry, negated
CloseFinds(pid) == CloseReqId(pid) \in DOMAIN requests

\* trace_close_entry from "req->end_ns = ts" on
CloseCompleted(req_id, old) ==
  LET req == [old EXCEPT !.end_ns = lt_ktime, !.completed = 1]
  IN /\ latency_hist' =
          [k \in DOMAIN latency_hist \cup {CloseHistKey} |->
             IF k = CloseHistKey
             THEN Add64(Get(latency_hist, k), LatencyMicros(req))
             ELSE latency_hist[k]]
     /\ latency_events' = IF Len(latency_events) < MaxLtBuf
                          THEN Append(latency_events, req)
                          ELSE latency_events
     /\ requests' = [k \in DOMAIN requests \ {req_id} |-> requests[k]]

trace_close_entry_unchecked(pid) ==
  /\ lt_probes < MaxLtProbes
  /\ IF CloseFinds(pid)
     THEN CloseCompleted(CloseReqId(pid), requests[CloseReqId(pid)])
     ELSE CloseCompleted(CloseReqId(pid), NoRequest)
  /\ lt_probes' = lt_probes + 1
  /\ lt_probe' = [name |-> "close", pid |-> pid]
  /\ UNCHANGED lt_ktime
  /\ UNCHANGED <<ltUser, notLt>>

\* trace_close_entry
trace_close_entry(pid) ==
  /\ lt_probes < MaxLtProbes
  /\ IF CloseFinds(pid)
     THEN CloseCompleted(CloseReqId(pid), requests[CloseReqId(pid)])
     ELSE UNCHANGED <<requests, latency_hist, latency_events>>
  /\ lt_probes' = lt_probes + 1
  /\ lt_probe' = [name |-> "close", pid |-> pid]
  /\ UNCHANGED lt_ktime
  /\ UNCHANGED <<ltUser, notLt>>

\* trace_tcp_sendmsg
trace_tcp_sendmsg(pid, dport) ==
  /\ lt_probes < MaxLtProbes
  /\ requests' =
       IF dport \in DbPorts
       THEN Put(requests, gen_request_id(pid, 0, dport),
                [NoRequest EXCEPT
                   !.start_ns = lt_ktime, !.pid = pid, !.dport = dport,
                   !.http_method = "QUERY",
                   !.http_path = IF dport = POSTGRES_PORT THEN "postgresql"
                                 ELSE "mysql"])
       ELSE requests
  /\ lt_probes' = lt_probes + 1
  /\ lt_probe' = [name |-> "sendmsg", pid |-> pid]
  /\ UNCHANGED <<lt_ktime, latency_hist, latency_events>>
  /\ UNCHANGED <<ltUser, notLt>>

\* The kernel clock moves on between two probes.
LtTick ==
  /\ \E t \in LtInstants : t > lt_ktime /\ lt_ktime' = t
  /\ UNCHANGED <<lt_probes, lt_probe, requests, latency_hist, latency_events>>
  /\ UNCHANGED <<ltUser, notLt>>

(***************************************************************************)
(* Latency tracker: user space.  Latencies that the code converts to       *)
(* milliseconds and seconds (/ 1e6, / 1000) are kept in nanoseconds.       *)
(***************************************************************************)
\* LatencyTracker.load_service_mapping, and the default of process_latency_event
ServiceOfPort(sport) ==
  IF sport = 8080 THEN "api-service"
  ELSE IF sport = 3000 THEN "web-frontend"
  ELSE IF sport = 9090 THEN "prometheus"
  ELSE "unknown"

\* latency_ms = (event.end_ns - event.start_ns) / 1e6, on Python integers
EventLatency(ev) == ev.end_ns - ev.start_ns

RECURSIVE SumSeq(_)
SumSeq(s) == IF s = <<>> THEN 0 ELSE Head(s) + SumSeq(Tail(s))

\* the buffer of a service: self.latency_buffer is a defaultdict(list)
BufferOf(service) ==
  IF service \in DOMAIN latency_buffer THEN latency_buffer[service] ELSE <<>>

update_lead_time_late(service, latency) ==
  LET buffer == Append(BufferOf(service), latency)
  IN IF Len(buffer) > LEAD_TIME_BATCH
     THEN /\ lead_time' =
               Observe(lead_time,
                       [service |-> service, environment |-> "production",
                        sum |-> SumSeq(buffer), count |-> Len(buffer)])
          /\ latency_buffer' = Put(latency_buffer, service, <<>>)
     ELSE /\ latency_buffer' = Put(latency_buffer, service, buffer)
          /\ UNCHANGED lead_time

\* LatencyTracker.update_lead_time.  The observed value, avg_latency * 60 /
\* 1000 * 60, is kept as the sum and the length of the buffer.
update_lead_time(service, latency) ==
  LET buffer == Append(BufferOf(service), latency)
  IN IF Len(buffer) >= LEAD_TIME_BATCH
     THEN /\ lead_time' =
               Observe(lead_time,
                       [service |-> service, environment |-> "production",
                        sum |-> SumSeq(buffer), count |-> Len(buffer)])
          /\ latency_buffer' = Put(latency_buffer, service, <<>>)
     ELSE /\ latency_buffer' = Put(latency_buffer, service, buffer)
          /\ UNCHANGED lead_time

\* LatencyTracker.process_latency_event
process_latency_event(ev) ==
  LET service == ServiceOfPort(ev.sport)
      endpoint == IF ev.http_path = "" THEN "/unknown" ELSE ev.http_path
      method == IF ev.http_method = "" THEN "GET" ELSE ev.http_method
      status == IF ev.http_status = 0 THEN 200 ELSE ev.http_status
  IN /\ IF ev.dport \in DbPorts
        THEN /\ db_latency' =
                  Observe(db_latency,
                          [database |-> IF ev.dport = POSTGRES_PORT
                                        THEN "postgresql" ELSE "mysql",
                           operation |-> "query", service |-> service,
                           value |-> EventLatency(ev)])
             /\ UNCHANGED http_latency
        ELSE /\ http_latency' =
                  Observe(http_latency,
                          [method |-> method, endpoint |-> endpoint,
                           status |-> status, service |-> service,
                           value |-> EventLatency(ev)])
             /\ UNCHANGED db_latency
     /\ update_lead_time(service, EventLatency(ev))

\* perf_buffer_poll of LatencyTracker.run: the callback runs on the oldest
\* record of the ring
LtDispatch ==
  /\ latency_events # <<>>
  /\ process_latency_event(Head(latency_events))
  /\ lt_event' = Head(latency_events)
  /\ latency_events' = Tail(latency_events)
  /\ UNCHANGED <<lt_ktime, lt_probes, lt_probe, requests, latency_hist,
                 lt_printed>>
  /\ UNCHANGED notLt

\* LatencyTracker.print_histogram, which run calls when int(time.time()) % 60
\* is 0 after a poll: the periodic work of the loop
print_histogram ==
  /\ latency_hist' = EmptyMap
  /\ lt_printed' = lt_ktime
  /\ UNCHANGED <<lt_ktime, lt_probes, lt_probe, requests, latency_events>>
  /\ UNCHANGED <<lt_event, http_latency, db_latency, lead_time, latency_buffer>>
  /\ UNCHANGED notLt

LtInit ==
  /\ lt_ktime = CHOOSE t \in LtInstants : \A u \in LtInstants : t <= u
  /\ lt_probes = 0
  /\ lt_probe = [name |-> "none", pid |-> 0]
  /\ requests = EmptyMap
  /\ latency_hist = EmptyMap
  /\ latency_events = <<>>
  /\ lt_event = NoRequest
  /\ lt_printed = 0
  /\ http_latency = EmptyBag
  /\ db_latency = EmptyBag
  /\ lead_time = EmptyBag
  /\ latency_buffer = EmptyMap

(***************************************************************************)
(* The latency callback on its own.  process_latency_event is run on       *)
(* records of any local port, whatever the probes submit, from a state in  *)
(* which it has already served requests of two services: the buffers are   *)
(* one and two samples short of a batch.                                   *)
(***************************************************************************)
WarmLatency == 9500   \* the latency of the requests served before, in ns

\* the requests of a service served before
WarmCount(service) ==
  IF service = "api-service" THEN LEAD_TIME_BATCH - 1
  ELSE IF service = "web-frontend" THEN LEAD_TIME_BATCH - 2
  ELSE 0

\* the record of a closed request, as trace_close_entry submits it
ClosedRequest(sport, dport, end_ns) ==
  [NoRequest EXCEPT !.start_ns = 1000, !.end_ns = end_ns, !.pid = 1,
                    !.tid = 1, !.sport = sport, !.dport = dport,
                    !.completed = 1]

LeadRecords ==
  {ClosedRequest(sport, dport, end_ns) :
     sport \in {8080, 3000}, dport \in {8001, POSTGRES_PORT},
     end_ns \in LtInstants}

LeadInit ==
  LET served == {"api-service", "web-frontend"}
      sample(service) ==
        [method |-> "GET", endpoint |-> "/unknown", status |-> 200,
         service |-> service, value |-> WarmLatency]
  IN /\ lt_ktime = CHOOSE t \in LtInstants : \A u \in LtInstants : u <= t
     /\ lt_probes = 0
     /\ lt_probe = [name |-> "none", pid |-> 0]
     /\ requests = EmptyMap
     /\ latency_hist = EmptyMap
     /\ latency_events = <<>>
     /\ lt_event = ClosedRequest(3000, 8001, 1000 + WarmLatency)
     /\ lt_printed = 0
     /\ http_latency = [s \in {sample(service) : service \in served} |->
                          WarmCount(s.service)]
     /\ db_latency = EmptyBag
     /\ lead_time = EmptyBag
     /\ latency_buffer = [service \in served |->
                            [i \in 1..WarmCount(service) |-> WarmLatency]]

\* the callback of open_perf_buffer run on the record ev
LtCallback(ev) ==
  /\ BagCardinality(http_latency) + BagCardinality(db_latency)
       < WarmCount("api-service") + WarmCount("web-frontend") + MaxLeadCalls
  /\ process_latency_event(ev)
  /\ lt_event' = ev
  /\ UNCHANGED <<ltKernel, lt_printed, notLt>>

vars == <<dtVars, edVars, pmVars, ltVars>>

(***************************************************************************)
(* Specifications.  The agents are separate processes: each specification  *)
(* runs one of them and leaves the others in their initial state.          *)
(***************************************************************************)
Init == DtInitOn(Hostnames) /\ EdInitOn({0}) /\ PmInit /\ LtInit

Next ==
  \/ \E cpu \in Cpus, pid \in Pids, comm \in Comms : ProbeExec(cpu, pid, comm)
  \/ \E cpu \in Cpus, pid \in Pids : ProbeExit(cpu, pid)
  \/ \E cpu \in Cpus, path \in CgroupPaths : ProbeCgroupMkdir(cpu, path)
  \/ DtTick
  \/ \E cpu \in Cpus : DtDispatch(cpu)

\* the deployment tracker
Spec == Init /\ [][Next]_vars

DtAttached == dt_pc = "poll"

DtRunNext ==
  \/ \E cpu \in Cpus, pid \in Pids, comm \in Comms :
       DtAttached /\ ProbeExec(cpu, pid, comm)
  \/ \E cpu \in Cpus, pid \in Pids : DtAttached /\ ProbeExit(cpu, pid)
  \/ \E cpu \in Cpus, path \in CgroupPaths :
       DtAttached /\ ProbeCgroupMkdir(cpu, path)
  \/ DtAttached /\ DtTick
  \/ \E cpu \in Cpus : DtDispatch(cpu)
  \/ DtShutdown

\* the deployment tracker's loop until it ends
SpecDtRun == Init /\ [][DtRunNext]_vars

EdInit == DtInitOn({DevHost}) /\ EdInitOn(BootEpochs) /\ PmInit /\ LtInit

EdProbesMayFire == EdMayFire(MaxEdEvents, EdEventPeriod, MaxEdTime)

EdNext ==
  \/ \E comm \in EdComms : EdProbesMayFire /\ ProbeSignal(comm)
  \/ \E comm \in EdComms : EdProbesMayFire /\ ProbeOom(comm)
  \/ EdProbesMayFire /\ ProbePanic
  \/ \E comm \in EdComms, ret \in SendmsgReturns :
       EdProbesMayFire /\ ProbeTcpSendmsg(comm, ret)
  \/ \E comm \in EdComms, code \in ExitCodes :
       EdProbesMayFire /\ ProbeAbnormalExit(comm, code)
  \/ EdDispatch
  \/ ed_ktime < MaxEdTime /\ EdPollReturn

\* the error detector, every probe, over its first recovery check
SpecEd == EdInit /\ [][EdNext]_vars

EdLongNext ==
  \/ \E comm \in EdComms :
       EdMayFire(MaxLongEvents, LongEventPeriod, LongEventUntil) /\ ProbeSignal(comm)
  \/ EdDispatch
  \/ ed_ktime < MaxLongTime /\ EdPollReturn

\* the error detector, segfaults only, until the recovery window has passed
SpecLong == EdInit /\ [][EdLongNext]_vars

EdAttached == ed_pc \in {"poll", "sweep"}

\* the error probes fire at the seconds at which a recovery check is due
EdRunMayFire ==
  EdMayFire(MaxEdEvents, SWEEP_SECONDS + POLL_SECONDS,
            SWEEP_SECONDS + POLL_SECONDS)

EdRunNext ==
  \/ \E comm \in EdComms : EdAttached /\ EdRunMayFire /\ ProbeSignal(comm)
  \/ EdDispatch
  \/ ed_ktime < MaxLongTime /\ EdLoopPass
  \/ \E k \in ed_sweep.todo : EdSweepStep(k)
  \/ EdSweepEnd
  \/ EdShutdown

\* the error detector's loop until it ends, segfaults only
SpecEdRun == EdInit /\ [][EdRunNext]_vars

\* every agent before its first event
AgentsInit == DtInitOn({DevHost}) /\ EdInitOn({0}) /\ PmInit /\ LtInit

PmNext ==
  \/ \E cpu \in PmCpus : PmEnter(cpu)
  \/ \E cpu \in PmCpus, pid \in PmPids : ProbeSchedWakeup(cpu, pid)
  \/ \E cpu \in PmCpus, next \in PmPids \cup {IDLE_PID} : ProbeSchedSwitch(cpu, next)
  \/ \E cpu \in PmCpus, latency \in IoLatencies : ProbeBlockRqComplete(cpu, latency)
  \/ \E cpu \in PmCpus : ProbePageFaultUser(cpu)
  \/ \E cpu \in PmCpus : ProbeFinishTaskSwitch(cpu)
  \/ PmTick
  \/ PmDispatch
  \/ PmFlush

PmAttachInit ==
  DtInitOn({DevHost}) /\ EdInitOn({0}) /\ PmInitOn(RunningAtAttach) /\ LtInit

\* the performance monitor
SpecPm == PmAttachInit /\ [][PmNext]_vars

PmRaceNext ==
  \/ \E cpu \in PmCpus : PmEnter(cpu)
  \/ \E cpu \in PmCpus, pid \in PmPids : ProbeSchedWakeup(cpu, pid)
  \/ \E cpu \in PmCpus, next \in PmPids \cup {IDLE_PID} : ProbeSchedSwitch(cpu, next)
  \/ \E cpu \in PmCpus, latency \in IoLatencies : ProbeBlockRqComplete(cpu, latency)
  \/ PmFlushSched
  \/ PmClearSched
  \/ PmFlushIo
  \/ PmClearIo

\* the performance monitor's histograms, with the probes running during the
\* flush
SpecPmRace == AgentsInit /\ [][PmRaceNext]_vars

PmAttached == pm_pc # "stopped"

PmRunNext ==
  \/ \E cpu \in PmCpus : PmAttached /\ PmEnter(cpu)
  \/ \E cpu \in PmCpus, pid \in PmPids : PmAttached /\ ProbeSchedWakeup(cpu, pid)
  \/ \E cpu \in PmCpus, next \in PmPids \cup {IDLE_PID} :
       PmAttached /\ ProbeSchedSwitch(cpu, next)
  \/ \E cpu \in PmCpus, latency \in IoLatencies :
       PmAttached /\ ProbeBlockRqComplete(cpu, latency)
  \/ \E cpu \in PmCpus : PmAttached /\ ProbePageFaultUser(cpu)
  \/ \E cpu \in PmCpus : PmAttached /\ ProbeFinishTaskSwitch(cpu)
  \/ PmAttached /\ PmTick
  \/ PmDispatch
  \/ PmFlush
  \/ PmShutdown

\* the performance monitor's loop until Ctrl+C: the probes are detached when
\* the process ends
SpecPmRun == AgentsInit /\ [][PmRunNext]_vars

LtNext ==
  \/ \E pid \in LtPids, sport \in LocalPorts, dport \in RemotePorts :
       trace_accept_return(pid, sport, dport)
  \/ \E pid \in LtPids : trace_close_entry(pid)
  \/ \E pid \in LtPids, dport \in SendPorts : trace_tcp_sendmsg(pid, dport)
  \/ LtTick
  \/ LtDispatch
  \/ print_histogram

\* the latency tracker
SpecLt == AgentsInit /\ [][LtNext]_vars

LeadStart == DtInitOn({DevHost}) /\ EdInitOn({0}) /\ PmInit /\ LeadInit

LeadNext == \E ev \in LeadRecords : LtCallback(ev)

\* the latency callback from the warm start
SpecLead == LeadStart /\ [][LeadNext]_vars

(***************************************************************************)
(* Claims about the deployment tracker, checked under Spec.                *)
(***************************************************************************)
\* the step is the callback of DeploymentTracker.run on the oldest record of
\* cpu's ring
DtDispatched(cpu) ==
  /\ events[cpu] # <<>>
  /\ events' = [events EXCEPT ![cpu] = Tail(@)]

Completed ==
  {l \in DOMAIN deployment_counter : l[3] = "completed" /\ deployment_counter[l] > 0}

Started ==
  {l \in DOMAIN deployment_counter : l[3] = "started" /\ deployment_counter[l] > 0}

\* C1: a ContainerStart for a key that is not open stores the event's
\* timestamp under that key, and a ContainerStop for an open key emits exactly
\* one duration sample, of value stop timestamp - stored start timestamp, and
\* removes the key from the deployments table.
C1_StartStopPair ==
  [][\A cpu \in Cpus :
       DtDispatched(cpu) =>
         LET ev == Head(events[cpu])
             k == EventKey(ev)
         IN /\ (ev.event_type = EVENT_CONTAINER_START /\ k \notin DOMAIN deployments)
                 => /\ k \in DOMAIN deployments'
                    /\ deployments'[k].start_time = ev.timestamp
            /\ (ev.event_type = EVENT_CONTAINER_STOP /\ k \in DOMAIN deployments)
                 => /\ BagCardinality(deployment_duration') =
                         BagCardinality(deployment_duration) + 1
                    /\ \E smp \in BagToSet(deployment_duration') :
                         /\ smp.value = ev.timestamp - deployments[k].start_time
                         /\ CopiesIn(smp, deployment_duration') =
                              CopiesIn(smp, deployment_duration) + 1
                    /\ k \notin DOMAIN deployments']_vars

\* C1 witness: a stop has been paired with its start: one sample of a positive
\* duration is out and the key is gone.
C1_Witness ==
  /\ dt_event.event_type = EVENT_CONTAINER_STOP
  /\ BagCardinality(deployment_duration) = 1
  /\ \E smp \in BagToSet(deployment_duration) : smp.value > 0
  /\ EventKey(dt_event) \notin DOMAIN deployments

\* C2: a ContainerStop for a key that is not in the deployments table leaves
\* the table, the counters, the duration samples and the gauge unchanged.
C2_OrphanStopNoOp ==
  [][\A cpu \in Cpus :
       (/\ DtDispatched(cpu)
        /\ Head(events[cpu]).event_type = EVENT_CONTAINER_STOP
        /\ EventKey(Head(events[cpu])) \notin DOMAIN deployments)
       => UNCHANGED <<deployments, deployment_counter, deployment_duration,
                      active_deployments>>]_vars

\* C2 witness: the callback has run on a stop although no deployment was
\* ever completed, so the stop found no entry.
C2_Witness ==
  /\ dt_event.event_type = EVENT_CONTAINER_STOP
  /\ Completed = {}
  /\ deployment_duration = EmptyBag
  /\ EventKey(dt_event) \notin DOMAIN deployments

\* C3: a ContainerStart for a key that is already open overwrites the stored
\* start timestamp with the new event's, adds no entry and emits no sample, so
\* the later stop is measured from the latest start.
C3_LatestStartWins ==
  [][\A cpu \in Cpus :
       (/\ DtDispatched(cpu)
        /\ Head(events[cpu]).event_type = EVENT_CONTAINER_START
        /\ EventKey(Head(events[cpu])) \in DOMAIN deployments)
       => /\ DOMAIN deployments' = DOMAIN deployments
          /\ deployments'[EventKey(Head(events[cpu]))].start_time =
               Head(events[cpu]).timestamp
          /\ deployment_duration' = deployment_duration]_vars

\* C3 witness: two starts of one key, then its stop at second 20: the only
\* sample is 15 seconds, measured from the start at second 5.
C3_Witness ==
  /\ dt_event.event_type = EVENT_CONTAINER_STOP
  /\ dt_event.timestamp = 20
  /\ \E l \in Started : deployment_counter[l] = 2
  /\ BagCardinality(deployment_duration) = 1
  /\ \E smp \in BagToSet(deployment_duration) : smp.value = 15
  /\ deployments = EmptyMap

(***************************************************************************)
(* Claims about the error detector, checked under SpecEd and SpecLong.     *)
(***************************************************************************)
\* the step is the callback of ErrorDetector.run on the oldest record
EdDispatched ==
  /\ error_events # <<>>
  /\ error_events' = Tail(error_events)

\* the incidents the step takes out of the table
EdResolved == DOMAIN incidents \ DOMAIN incidents'

\* C4: an incident is taken out of the table only once more than 300 seconds
\* have passed since the error that opened it, at the first recovery check
\* after that (at most one check interval and one poll later), and the MTTR
\* observed for it lies in the same range.
C4_ResolvedAfterWindow ==
  [][\A k \in EdResolved :
       LET elapsed == ed_ktime' - incidents[k].start_time
       IN /\ elapsed > RECOVERY_SECONDS
          /\ elapsed <= RECOVERY_SECONDS + SWEEP_SECONDS + POLL_SECONDS
          /\ \E smp \in BagToSet(mttr_histogram') :
               /\ smp.service = incidents[k].service
               /\ smp.value > RECOVERY_SECONDS
               /\ smp.value <= RECOVERY_SECONDS + SWEEP_SECONDS + POLL_SECONDS
               /\ CopiesIn(smp, mttr_histogram') > CopiesIn(smp, mttr_histogram)]_vars

\* C5: a recovery check resolves an incident only when more than 300 seconds
\* lie between time.time() and the most recent error event of its key.
C5_ResolvedOnlyWhenQuiet ==
  [][(/\ IncidentKey(ed_event) \in DOMAIN incidents
      /\ IncidentKey(ed_event) \notin DOMAIN incidents')
     => (ed_boot + ed_ktime') - ed_event.timestamp > RECOVERY_SECONDS]_vars

\* C6: an error event on a key that is open and unresolved adds one to that
\* incident's error_count and changes nothing else of the incidents table
\* (no second record, same start_time) nor the active-incidents gauge.
C6_RepeatCountsOnly ==
  [][(/\ EdDispatched
      /\ IncidentKey(Head(error_events)) \in DOMAIN incidents
      /\ ~incidents[IncidentKey(Head(error_events))].resolved)
     => /\ incidents' =
             [incidents EXCEPT
                ![IncidentKey(Head(error_events))].error_count = @ + 1]
        /\ incident_gauge' = incident_gauge]_vars

\* C6 witness: the last record was a later error on an open key: its
\* incident counts two errors or more and keeps the earlier start_time.
C6_Witness ==
  /\ IncidentKey(ed_event) \in DOMAIN incidents
  /\ incidents[IncidentKey(ed_event)].error_count >= 2
  /\ incidents[IncidentKey(ed_event)].start_time < ed_event.timestamp

\* C7: every open incident whose error_count exceeds 5 has severity critical.
C7_EscalatedToCritical ==
  \A k \in DOMAIN incidents :
    (~incidents[k].resolved /\ incidents[k].error_count > CRITICAL_COUNT)
      => incidents[k].severity = "critical"

C9_ResolvedIsFinal ==
  [][/\ \A k \in DOMAIN incidents' : ~incidents'[k].resolved
     /\ BagCardinality(mttr_histogram') - BagCardinality(mttr_histogram) =
          Cardinality(EdResolved)
     /\ EdDispatched =>
          LET ev == Head(error_events)
              k == IncidentKey(ev)
          IN (k \notin DOMAIN incidents \/ incidents[k].resolved)
               => /\ k \in DOMAIN incidents'
                  /\ incidents'[k].error_count = 1
                  /\ incidents'[k].start_time = ev.timestamp
                  /\ ~incidents'[k].resolved
                  /\ mttr_histogram' = mttr_histogram]_vars

\* C9 witness: the last record opened a fresh incident for a key that was seen
\* before and whose earlier incident has been resolved.
C9_Witness ==
  /\ IncidentKey(ed_event) \in DOMAIN incidents
  /\ incidents[IncidentKey(ed_event)].error_count = 1
  /\ incidents[IncidentKey(ed_event)].start_time = ed_event.timestamp
  /\ ed_event.timestamp > 0
  /\ Get(error_counter, <<ed_event.comm, get_error_type_label(ed_event.error_type),
                          incidents[IncidentKey(ed_event)].severity>>) >= 2
  /\ DOMAIN error_counter =
       {<<ed_event.comm, get_error_type_label(ed_event.error_type),
          incidents[IncidentKey(ed_event)].severity>>}
  /\ BagCardinality(mttr_histogram) = 1

\* C10: the first error event of a key opens an incident of severity high when
\* the error type is segfault, OOM kill or kernel panic, and medium otherwise.
C10_OpeningSeverity ==
  [][(EdDispatched /\ IncidentKey(Head(error_events)) \notin DOMAIN incidents)
     => /\ IncidentKey(Head(error_events)) \in DOMAIN incidents'
        /\ incidents'[IncidentKey(Head(error_events))].severity =
             IF Head(error_events).error_type
                  \in {ERROR_SEGFAULT, ERROR_OOM, ERROR_PANIC}
             THEN "high" ELSE "medium"]_vars

\* C10 witness: a kernel panic and a connection timeout have each opened an
\* incident, the first high, the second medium.
C10_Witness ==
  /\ <<"kernel", "-", "kernel_panic">> \in DOMAIN incidents
  /\ incidents[<<"kernel", "-", "kernel_panic">>].severity = "high"
  /\ \E c \in EdComms :
       /\ <<c, "-", "timeout">> \in DOMAIN incidents
       /\ incidents[<<c, "-", "timeout">>].severity = "medium"

(***************************************************************************)
(* Claims about the performance monitor's log2 histograms, checked under   *)
(* SpecPm (C13: SpecPmRace).                                               *)
(***************************************************************************)
RECURSIVE FloorLog2(_)
\* floor(log2(v)) of a value v > 0
FloorLog2(v) == IF v < 2 THEN 0 ELSE 1 + FloorLog2(v \div 2)

RECURSIVE HistSum(_, _)
HistSum(hist, slots) ==
  IF slots = {} THEN 0
  ELSE LET k == CHOOSE x \in slots : TRUE
       IN hist[k] + HistSum(hist, slots \ {k})

\* the number of observations a histogram holds
HistTotal(hist) == HistSum(hist, DOMAIN hist)

AllZero(hist) == \A k \in DOMAIN hist : hist[k] = 0

\* the step is the "Update metrics every 5 seconds" branch of
\* PerformanceMonitor.run
PmFlushed ==
  /\ pm_pc = "poll"
  /\ pm_pc' = "poll"
  /\ UNCHANGED <<pm_ktime, pm_probes, pm_ts, task_stats, perf_events>>

\* every sample of the exporter's histogram is 2^floor(log2(v)) of a value
\* v observed into the kernel histogram
InBucketOfObserved(samples, observed) ==
  \A s \in BagToSet(samples) :
    \E v \in BagToSet(observed) : s.value = 2^FloorLog2(v)

AllPositive(observed) == \A v \in BagToSet(observed) : v > 0

\* C11: when positive values are observed into a log2 histogram and the
\* histogram is flushed, the flush forwards as many samples as the buckets
\* count, and every forwarded sample is 2^floor(log2(v)) of an observed v
\* (two observations of 9 are forwarded as two samples of value 8).
C11_ForwardedInBucket ==
  /\ [](/\ AllPositive(sched_observed)
           => InBucketOfObserved(sched_latency, sched_observed)
        /\ AllPositive(io_observed)
           => InBucketOfObserved(io_latency, io_observed))
  /\ [][PmFlushed =>
          /\ BagCardinality(sched_latency')
               = BagCardinality(sched_latency) + HistTotal(k_sched_latency)
          /\ BagCardinality(io_latency')
               = BagCardinality(io_latency) + HistTotal(k_io_latency)]_vars

C13_NothingLost ==
  pm_pc = "poll" =>
    /\ BagCardinality(sched_observed)
         = BagCardinality(sched_latency) + HistTotal(k_sched_latency)
    /\ BagCardinality(io_observed)
         = BagCardinality(io_latency) + HistTotal(k_io_latency)

\* the step observes value v into a histogram
ObservedNow(observed, v) ==
  /\ v \in BagToSet(observed')
  /\ observed' = Observe(observed, v)

\* C14: observing a value that is zero (or negative) is rejected and changes
\* no bucket.
C14_ZeroRejected ==
  [][/\ \A v \in BagToSet(sched_observed') :
          ObservedNow(sched_observed, v) /\ v <= 0
            => k_sched_latency' = k_sched_latency
     /\ \A v \in BagToSet(io_observed') :
          ObservedNow(io_observed, v) /\ v <= 0
            => k_io_latency' = k_io_latency]_vars

\* the step is the body of sched_switch on cpu
SwitchedOn(cpu) ==
  /\ pm_ts[cpu] # 0
  /\ pm_ts'[cpu] = 0
  /\ pm_current'[cpu] # pm_current[cpu]

\* C19: when a context switch reads a timestamp smaller than the outgoing
\* task's last-scheduled timestamp, the negative delta is clamped to zero:
\* the task's accumulated runtime stays as it is.
C19_NegativeDeltaClamped ==
  [][\A cpu \in PmCpus :
       LET prev == pm_current[cpu]
       IN SwitchedOn(cpu) /\ PrevRan(prev)
          /\ pm_ts[cpu] < task_stats[prev].timestamp
          => task_stats'[prev].runtime_ns = task_stats[prev].runtime_ns]_vars

(***************************************************************************)
(* Claims about the latency tracker, checked under SpecLt.                 *)
(***************************************************************************)
\* the step is trace_close_entry run for pid
Closed(pid) ==
  /\ lt_probes' = lt_probes + 1
  /\ lt_probe' = [name |-> "close", pid |-> pid]

\* the requests of the table that an accept of pid on an HTTP port opened
AcceptedBy(pid) == {k \in DOMAIN requests : k[1] = pid /\ k[2] \in HttpPorts}

\* C16: a request opened by an accept on one of the HTTP ports 80, 8080,
\* 443, 8443, with any remote port, is found by the close of the same
\* process under the key it was stored with: the close removes it from the
\* table and submits it with end_ns - start_ns as its latency.
C16_CloseFindsAccepted ==
  [][\A pid \in LtPids :
       Closed(pid) /\ AcceptedBy(pid) # {}
       => \E k \in AcceptedBy(pid) :
            /\ k \notin DOMAIN requests'
            /\ Len(latency_events) < MaxLtBuf
               => latency_events' =
                    Append(latency_events,
                           [requests[k] EXCEPT !.end_ns = lt_ktime,
                                               !.completed = 1])]_vars

\* C17: a close of a process that has no open request submits no latency
\* event, adds nothing to the latency histogram and leaves the requests
\* table as it is.
C17_OrphanCloseDiscarded ==
  [][\A pid \in LtPids :
       Closed(pid) /\ (\A k \in DOMAIN requests : k[1] # pid)
       => UNCHANGED <<requests, latency_hist, latency_events, ltUser>>]_vars

\* a process without an open request has closed a descriptor while another
\* process has a request open
C17_Witness ==
  /\ lt_probe.name = "close"
  /\ \A k \in DOMAIN requests : k[1] # lt_probe.pid
  /\ DOMAIN requests # {}
  /\ latency_events = <<>>
  /\ lt_event = NoRequest
  /\ latency_hist = EmptyMap

\* C18: the loop's periodic pass removes the open requests that are older
\* than the max-age bound: no request that was older than LtMaxAge at the
\* last pass is still in the requests table.
C18_StaleEvicted ==
  \A k \in DOMAIN requests : lt_printed - requests[k].start_ns <= LtMaxAge

C20_NoNegativeSample ==
  /\ \A s \in BagToSet(deployment_duration) : s.value >= 0
  /\ \A s \in BagToSet(http_latency) : s.value >= 0
  /\ \A s \in BagToSet(db_latency) : s.value >= 0

(***************************************************************************)
(* Claims about the gauges.                                                *)
(***************************************************************************)
\* the labels of the records of the deployments table
DeploymentLabels ==
  {<<deployments[k].service, deployments[k].environment>> : k \in DOMAIN deployments}

\* C27: the dora_active_deployments gauge of each (service, environment) is
\* the number of records of the deployments table with that service and
\* environment, and is never negative.
C27_GaugeCountsDeployments ==
  \A l \in DOMAIN active_deployments \cup DeploymentLabels :
    /\ Get(active_deployments, l) =
         Cardinality({k \in DOMAIN deployments :
                        <<deployments[k].service, deployments[k].environment>> = l})
    /\ Get(active_deployments, l) >= 0

\* the labels of the records of the incidents table
IncidentLabels ==
  {<<incidents[k].service, incidents[k].severity>> : k \in DOMAIN incidents}

\* C29: the dora_active_incidents gauge of each (service, severity) is the
\* number of unresolved records of the incidents table with that service and
\* severity, and is never negative.
C29_GaugeCountsIncidents ==
  \A l \in DOMAIN incident_gauge \cup IncidentLabels :
    /\ Get(incident_gauge, l) =
         Cardinality({k \in DOMAIN incidents :
                        /\ ~incidents[k].resolved
                        /\ <<incidents[k].service, incidents[k].severity>> = l})
    /\ Get(incident_gauge, l) >= 0

\* a recovery check has resolved every incident of one label, whose gauge is
\* back at 0, while two incidents of another label are open
C29_Witness ==
  /\ mttr_histogram # EmptyBag
  /\ \E l \in DOMAIN incident_gauge : incident_gauge[l] = 0
  /\ \E l \in DOMAIN incident_gauge : incident_gauge[l] = 2

(***************************************************************************)
(* Claims about the performance monitor's task table, checked under        *)
(* SpecPm.                                                                 *)
(***************************************************************************)
\* C24: a context switch on a CPU from task p to task n that read the
\* timestamp ts adds ts - p.timestamp (a u64 difference) to p's runtime_ns
\* and one to p's ctx_switches when p is in the task table with a non-zero
\* timestamp, and creates no record for p otherwise; it sets n's timestamp to
\* ts, creating n's record if there is none; the record of no other task
\* changes.
C24_ContextSwitch ==
  [][\A cpu \in PmCpus :
       SwitchedOn(cpu) =>
         LET ts == pm_ts[cpu]
             p == pm_current[cpu]
             n == pm_current'[cpu]
         IN /\ (p \in DOMAIN task_stats /\ task_stats[p].timestamp > 0)
                 => /\ task_stats'[p].runtime_ns =
                         Add64(task_stats[p].runtime_ns,
                               Sub64(ts, task_stats[p].timestamp))
                    /\ task_stats'[p].ctx_switches =
                         task_stats[p].ctx_switches + 1
            /\ (p \in DOMAIN task_stats /\ task_stats[p].timestamp = 0)
                 => /\ task_stats'[p].runtime_ns = task_stats[p].runtime_ns
                    /\ task_stats'[p].ctx_switches = task_stats[p].ctx_switches
            /\ DOMAIN task_stats' = DOMAIN task_stats \cup {n}
            /\ task_stats'[n].timestamp = ts
            /\ \A q \in DOMAIN task_stats \ {p, n} :
                 task_stats'[q] = task_stats[q]]_vars

\* task p ran from 1000 to 10500 and was switched out for task n: p is
\* charged 9500 ns and one context switch, n is scheduled since 10500 ns
C24_Witness ==
  \E p, n \in DOMAIN task_stats, cpu \in PmCpus :
    /\ p # n
    /\ task_stats[p].ctx_switches = 1
    /\ task_stats[p].runtime_ns = 9500
    /\ pm_current[cpu] = n
    /\ task_stats[n].timestamp = 10500

\* the step is the body of block_rq_complete or of page_fault_user
TaskCounted == pm_probes' = pm_probes + 1 /\ pm_ts' = pm_ts

\* C25: a page fault or a completed block request adds to the counters of
\* the task the CPU runs only if that task is in the task table: it creates
\* no record, leaves the table as it is when the task has no record, and
\* otherwise changes the record of that one task, by one page fault or by the
\* request's latency.
C25_UntrackedDropped ==
  [][TaskCounted =>
       /\ DOMAIN task_stats' = DOMAIN task_stats
       /\ (\A cpu \in PmCpus : pm_current[cpu] \notin DOMAIN task_stats)
            => task_stats' = task_stats
       /\ (\A cpu \in PmCpus : pm_current[cpu] \in DOMAIN task_stats)
            => task_stats' # task_stats
       /\ \A pid \in DOMAIN task_stats :
            task_stats'[pid] # task_stats[pid] =>
              /\ \E cpu \in PmCpus : pm_current[cpu] = pid
              /\ \A q \in DOMAIN task_stats \ {pid} : task_stats'[q] = task_stats[q]
              /\ \/ task_stats'[pid] =
                      [task_stats[pid] EXCEPT !.page_faults = @ + 1]
                 \/ \E latency \in IoLatencies :
                      task_stats'[pid] =
                        [task_stats[pid] EXCEPT !.io_time_ns = Add64(@, latency)]]_vars

\* a task that ran before the probes were attached has had a page fault and
\* a completed block request, and the task table is still empty
C25_Witness ==
  /\ pm_probes = 2
  /\ pm_current[0] # IDLE_PID
  /\ BagCardinality(io_observed) = 1
  /\ task_stats = EmptyMap

(***************************************************************************)
(* Claims about the pairing of container starts and stops, checked under   *)
(* Spec.                                                                   *)
(***************************************************************************)
\* the records of the log that start or stop a container
ContainerRecords ==
  {i \in DOMAIN dt_log :
     dt_log[i].event_type \in {EVENT_CONTAINER_START, EVENT_CONTAINER_STOP}}

\* C23: the pairing does not depend on the order in which the rings of
\* different CPUs are read: once every record of the execs and exits of one
\* container process has been delivered, in any order, each stop has given
\* one duration sample and no deployment is left open.
C23_OrderIndependent ==
  (/\ Len(dt_log) = dt_submitted
   /\ container_pids = EmptyMap
   /\ \A i \in ContainerRecords : dt_log[i].container_id = <<>>
   /\ \A i, j \in ContainerRecords : dt_log[i].pid = dt_log[j].pid)
  => /\ deployments = EmptyMap
     /\ BagCardinality(deployment_duration) =
          Cardinality({i \in ContainerRecords :
                         dt_log[i].event_type = EVENT_CONTAINER_STOP})

\* the place in the log of the start that a stop of process pid answers: the
\* last start of pid, unless a stop of pid followed it (0: there is none)
OwnStart(pid) ==
  LET starts == {i \in DOMAIN dt_log :
                   /\ dt_log[i].event_type = EVENT_CONTAINER_START
                   /\ dt_log[i].pid = pid}
      last == CHOOSE i \in starts : \A j \in starts : j <= i
  IN IF starts = {} THEN 0
     ELSE IF \E j \in DOMAIN dt_log :
               /\ j > last
               /\ dt_log[j].event_type = EVENT_CONTAINER_STOP
               /\ dt_log[j].pid = pid
     THEN 0
     ELSE last

\* C28: containers of different processes do not interfere: when the
\* records are delivered in the order of their timestamps, a stop whose
\* process's start has been delivered gives one duration sample, measured
\* from that start.
C28_OwnStartPaired ==
  [][\A cpu \in Cpus :
       DtDispatched(cpu) =>
         LET ev == Head(events[cpu])
             s == OwnStart(ev.pid)
         IN (/\ ev.event_type = EVENT_CONTAINER_STOP
             /\ s # 0
             /\ \A i \in DOMAIN dt_log : dt_log[i].timestamp <= ev.timestamp)
            => /\ BagCardinality(deployment_duration') =
                    BagCardinality(deployment_duration) + 1
               /\ \E smp \in BagToSet(deployment_duration') :
                    /\ smp.value = ev.timestamp - dt_log[s].timestamp
                    /\ CopiesIn(smp, deployment_duration') =
                         CopiesIn(smp, deployment_duration) + 1]_vars

(***************************************************************************)
(* Claims about the lead-time buffer, checked under SpecLead.              *)
(***************************************************************************)
\* C30: no buffer of latency_buffer ever holds 100 samples; a call of
\* update_lead_time for a service whose buffer holds 99 samples observes one
\* lead time for that service, over the 100 samples, and empties that
\* buffer; any other call appends its sample and observes nothing; the
\* buffers of the other services stay as they are.
C30_BufferBounded ==
  /\ [](\A s \in DOMAIN latency_buffer : Len(latency_buffer[s]) < LEAD_TIME_BATCH)
  /\ [][\A s \in DOMAIN latency_buffer' :
          (s \notin DOMAIN latency_buffer \/ latency_buffer'[s] # latency_buffer[s])
          => LET old == IF s \in DOMAIN latency_buffer THEN latency_buffer[s]
                        ELSE <<>>
             IN /\ \A o \in DOMAIN latency_buffer \ {s} :
                     o \in DOMAIN latency_buffer'
                     /\ latency_buffer'[o] = latency_buffer[o]
                /\ IF Len(old) + 1 = LEAD_TIME_BATCH
                   THEN /\ latency_buffer'[s] = <<>>
                        /\ BagCardinality(lead_time') = BagCardinality(lead_time) + 1
                        /\ \E smp \in BagToSet(lead_time') :
                             /\ smp.service = s
                             /\ smp.count = LEAD_TIME_BATCH
                             /\ smp.sum = SumSeq(old) + EventLatency(lt_event')
                             /\ CopiesIn(smp, lead_time') =
                                  CopiesIn(smp, lead_time) + 1
                   ELSE /\ latency_buffer'[s] =
                             Append(old, EventLatency(lt_event'))
                        /\ lead_time' = lead_time]_vars

\* both services have had their 100th sample: each has one lead-time
\* observation and a buffer that was emptied, and api-service has a sample of
\* its next batch
C30_Witness ==
  /\ BagCardinality(lead_time) = 2
  /\ \E smp \in BagToSet(lead_time) : smp.service = "api-service"
  /\ \E smp \in BagToSet(lead_time) : smp.service = "web-frontend"
  /\ Len(latency_buffer["api-service"]) = 1
  /\ latency_buffer["web-frontend"] = <<>>

(***************************************************************************)
(* Claims about the end of the loops.                                      *)
(***************************************************************************)
\* C21: when the loop has ended on a shutdown request, nothing is left in
\* the log2 histograms: every latency the probes counted was forwarded to
\* the exporter by a final flush.
C21_FlushedAtShutdown ==
  pm_pc = "stopped" =>
    /\ \A k \in DOMAIN k_sched_latency : k_sched_latency[k] = 0
    /\ \A k \in DOMAIN k_io_latency : k_io_latency[k] = 0

C26_SingleWriter ==
  /\ [](ed_pc = "sweep" => ed_sweep.todo \subseteq DOMAIN incidents)
  /\ [][ed_pc = "sweep" =>
          \/ incidents' = incidents
          \/ \E k \in ed_sweep.todo :
               /\ incidents' = DropResolved({k})
               /\ ed_sweep'.todo = ed_sweep.todo \ {k}]_vars
  /\ [][error_counter' # error_counter =>
          ed_pc = "poll" /\ ed_pc' = "poll"]_vars

\* the check is walking its list while a record waits in the perf buffer
C26_Witness ==
  /\ ed_pc = "sweep"
  /\ ed_sweep.todo # {}
  /\ error_events # <<>>

====
